---- MODULE Spec2Model ----
(***************************************************************************)
(* A model of the conversation pipeline of chatgpt-to-claude (site/js):    *)
(* tree reconstruction (parser.js), content rendering                      *)
(* (content-handlers.js), splitting (splitter.js, markdown-writer.js) and  *)
(* output path de-duplication (organizer.js).                              *)
(*                                                                         *)
(* Each component has its own specification over the variables it uses;    *)
(* the variables of the other components stay at their idle values.        *)
(***************************************************************************)
EXTENDS Integers, Sequences, FiniteSets, TLC

VARIABLES
    \* parseConversations / traverseTree (parser.js)
    rawData,        \* the input array: a sequence of raw records
    metadataOnly,   \* options.metadataOnly
    idx,            \* 1-based position of the for-of loop over rawData
    results,        \* the results array
    pc,             \* where the running call is: "idle", "loop", "forward",
                    \* "backward", "returned", "threw", "done"
    thrown,         \* the expression that threw, "" when none did
    leafId,         \* traverseTree: leafId
    currentId,      \* traverseTree: currentId
    messages,       \* traverseTree: messages, in push order
    turn,           \* parity of the iterations of the running loop of traverseTree
    \* renderContent (content-handlers.js)
    rawContent,     \* the payload last given to renderContent
    rendered,       \* what renderContent did with it
    \* maybeSplit (splitter.js)
    conversation,   \* the conversation last given to maybeSplit
    maxSize,        \* its maxSize argument
    splitParts,     \* the array maybeSplit returned
    \* the conversation loop of convertAndDownload (api-client.js, organizer.js)
    organize,       \* the organisation mode of the download
    usedPaths,      \* the Map: lower-cased path -> count
    calls,          \* the paths passed to deduplicatePath so far, in order
    returned,       \* the paths it returned, in the same order
    \* clusterConversations (clusterer.js)
    clusterInput,   \* the conversations array given to clusterConversations
    topKeywords,    \* topKeywords: per conversation, the terms of its Set in order
    clusters,       \* agglomerativeCluster: clusters, each the list of its indices
    labelled,       \* the array clusterConversations returns
    \* the session after processing: summaries, enhancement, download (app.js)
    kbClusters,         \* clusters
    profileMarkdown,    \* profileMarkdown
    knowledgeSummaries, \* knowledgeSummaries
    zipFiles,           \* the files of the zip, in the order of their first write
    sent,               \* the calls of sendMessage so far, each with its outcome
    enhResults,         \* enhanceKnowledge: results
    enhStatus,          \* the status line of handleEnhance, "" before it runs
    \* the worker (parse-worker.js) and processWithWorker (app.js)
    worker,             \* "none", "created", "failed" (its script did not start), "terminated"
    stage,              \* self.onmessage: how many of its six stages have run,
                        \* 7 when it has returned
    posted,             \* the messages the worker posted, in order
    handled,            \* how many of them worker.onmessage has handled
    promise,            \* the promise of processWithWorker
    settleCalls,        \* the calls of resolve and reject so far
    session,            \* the session results, NULL while none are written
    progressShown,      \* the percentages given to updateProgress, in order
    \* the two processing paths of app.js on one input
    pipeInput,          \* rawData
    mainSession,        \* the session results after processOnMainThread
    workerSession,      \* the session results after the worker's result message
    \* jaccardSimilarity (clusterer.js) on two Sets
    jacA,               \* setA, the terms in insertion order
    jacB,               \* setB
    jacSim,             \* what the call returned
    \* sanitizeFilename (organizer.js) on one title
    sanTitle,           \* title
    sanMaxLength,       \* maxLength
    sanName,            \* what the call returned, NULL before it
    \* two calls of clusterConversations on one array
    sorts,              \* what the sorts of getClusterKeywords returned in this call
    firstRun,           \* the first call: its sorts and what it returned
    \* the timestamps of one raw conversation, parsed and formatted
    tsCreate,           \* rawConv.create_time, a JSON value
    tsUpdate,           \* rawConv.update_time
    tsConv,             \* createdAt and updatedAt of the parsed conversation
    tsOut,              \* what the stages that format them returned
    \* analyzeCommunicationStyle (profile-builder.js) on one list of texts
    styleMessages,      \* messages, the texts of the user messages
    style,              \* what the call returned
    \* the page (app.js): uploads, Start Over and AI enhancement
    currentState,       \* the section shown: LANDING, PROCESSING or PREVIEW
    app,                \* the session variables of the module
    banner,             \* the #upload-error element
    upload,             \* the call of handleFile in progress, or the last one
    enhance,            \* the call of handleEnhance in progress
    uploads             \* how many archives have been uploaded

parseVars  ==
    <<rawData, metadataOnly, idx, results, pc, thrown, leafId, currentId, messages, turn>>
renderVars == <<rawContent, rendered>>
splitVars  == <<conversation, maxSize, splitParts>>
pathVars   == <<organize, usedPaths, calls, returned>>
clusterVars == <<clusterInput, topKeywords, clusters, labelled>>
\* the state of the stages after the document stages
knowVars   == <<kbClusters, profileMarkdown, knowledgeSummaries, zipFiles, sent, enhResults,
                enhStatus>>
\* the stages after clusterConversations
workerVars == <<worker, stage, posted, handled, promise, settleCalls, session, progressShown>>
pipeVars   == <<pipeInput, mainSession, workerSession>>
jacVars    == <<jacA, jacB, jacSim>>
\* the components checked one function or one handler at a time
sanVars    == <<sanTitle, sanMaxLength, sanName>>
twiceVars  == <<sorts, firstRun>>
stampVars  == <<tsCreate, tsUpdate, tsConv, tsOut>>
styleVars  == <<styleMessages, style>>
appVars    == <<currentState, app, banner, upload, enhance, uploads>>
unitVars == <<jacVars, sanVars, twiceVars, stampVars, styleVars, appVars>>
lateVars   == <<knowVars, workerVars, pipeVars, unitVars>>
extVars    == <<clusterVars, lateVars>>
\* the variables of the document stages but pc
docVars    == <<rawData, metadataOnly, idx, results, thrown, leafId, currentId, messages, turn,
                renderVars, splitVars, pathVars>>
\* what the session stage leaves alone
besideKnow == <<docVars, clusterVars, workerVars, pipeVars, unitVars>>
\* what the worker and its driver leave alone
besideWorker ==
    <<parseVars, renderVars, splitVars, pathVars, clusterVars, knowVars, pipeVars, unitVars>>
\* what the two processing paths leave alone
besidePipe ==
    <<parseVars, renderVars, splitVars, pathVars, clusterVars, knowVars, workerVars, unitVars>>
\* the pipeline stages, for the components checked on their own
stageVars ==
    <<parseVars, renderVars, splitVars, pathVars, clusterVars, knowVars, workerVars, pipeVars>>
unitsBesideJac == <<sanVars, twiceVars, stampVars, styleVars, appVars>>
unitsBesideSan == <<jacVars, twiceVars, stampVars, styleVars, appVars>>
unitsBesideTwice == <<jacVars, sanVars, stampVars, styleVars, appVars>>
unitsBesideStamp == <<jacVars, sanVars, twiceVars, styleVars, appVars>>
unitsBesideStyle == <<jacVars, sanVars, twiceVars, stampVars, appVars>>
unitsBesideApp == <<jacVars, sanVars, twiceVars, stampVars, styleVars>>
besideJac == <<stageVars, unitsBesideJac>>
besideSan == <<stageVars, unitsBesideSan>>
vars       == <<parseVars, renderVars, splitVars, pathVars, extVars>>

\* JavaScript null / undefined, for ids, roles and content types
NULL == "null"

-----------------------------------------------------------------------------
(***************************************************************************)
(* Raw content payloads.  Every payload and every part is a record with    *)
(* the same fields, so that TLC can compare them; an absent string field   *)
(* is "" (the code reads every one of them as `x || ''`).                  *)
(***************************************************************************)

\* strings s with s.trim() === ''
Blank == {"", " "}

Trim(s) == IF s \in Blank THEN "" ELSE s

\* a part of content.parts: a string, an object, or null
StrPart(s) == [k |-> "string", s |-> s, ct |-> "", ptr |-> "", name |-> ""]
ObjPart(ct, ptr, name, text) == [k |-> "object", s |-> text, ct |-> ct, ptr |-> ptr, name |-> name]
NullPart == [k |-> "null", s |-> "", ct |-> "", ptr |-> "", name |-> ""]

\* content.parts: absent, an array, or a truthy value that is no array
NoParts == [tag |-> "absent", items |-> <<>>]
Parts(items) == [tag |-> "array", items |-> items]
ScalarParts == [tag |-> "scalar", items |-> <<>>]

Payload(ct, parts, text, result) ==
    [nil |-> FALSE, content_type |-> ct, parts |-> parts, text |-> text,
     result |-> result, language |-> "", title |-> "", url |-> ""]

\* `{}`, what `raw.content || {}` gives for a message without content
EmptyPayload == Payload(NULL, NoParts, "", "")

\* message.content null or absent
NoContent == [EmptyPayload EXCEPT !.nil = TRUE]

-----------------------------------------------------------------------------
(***************************************************************************)
(* content-handlers.js: renderContent and its handlers.                    *)
(***************************************************************************)

CONTENT_TYPES ==
    [TEXT |-> "text", CODE |-> "code", EXECUTION_OUTPUT |-> "execution_output",
     BROWSING_DISPLAY |-> "tether_browsing_display", BROWSING_QUOTE |-> "tether_quote",
     MULTIMODAL_TEXT |-> "multimodal_text", UNKNOWN |-> "unknown"]

\* a content fragment; the fields a handler does not set are ""
Fragment(contentType, text) ==
    [contentType |-> contentType, text |-> text, language |-> "", title |-> "",
     url |-> "", imageRef |-> ""]

\* object-part content types t with t.includes('image') / t.includes('file')
ImageTypes == {"image_asset_pointer"}
FileTypes  == {"file", "file_attachment"}

handleStructuredPart(part) ==
    IF part.ct \in ImageTypes
    THEN << [Fragment(CONTENT_TYPES.TEXT,
                      IF part.ptr # "" THEN "[Image: " \o part.ptr \o "]" ELSE "[Image]")
              EXCEPT !.imageRef = part.ptr] >>
    ELSE IF part.ct \in FileTypes
    THEN << Fragment(CONTENT_TYPES.TEXT,
                     "[File: " \o (IF part.name # "" THEN part.name ELSE "unnamed_file") \o "]") >>
    ELSE IF part.s # ""
    THEN << Fragment(CONTENT_TYPES.TEXT, part.s) >>
    ELSE << >>

\* what a call does: return a fragment list, return a value that is no list,
\* or throw
Returned(frags) == [outcome |-> "list", frags |-> frags]
ReturnedNoList  == [outcome |-> "nolist", frags |-> << >>]
Threw           == [outcome |-> "threw", frags |-> << >>]

RECURSIVE TextFragments(_)
TextFragments(parts) ==
    IF parts = << >> THEN << >>
    ELSE LET part == Head(parts)
             here == IF part.k = "string" /\ Trim(part.s) # ""
                     THEN << Fragment(CONTENT_TYPES.TEXT, part.s) >>
                     ELSE IF part.k = "object" THEN handleStructuredPart(part)
                     ELSE << >>
         IN  here \o TextFragments(Tail(parts))

\* a text handler that passes the object parts on and no string part
handleTextObjectsOnly(content) ==
    IF content.parts.tag = "scalar" THEN Threw
    ELSE Returned(TextFragments(SelectSeq(content.parts.items, LAMBDA part : part.k = "object")))

\* `for (const part of parts)` over `content.parts || []`: a number is not iterable
handleText(content) ==
    IF content.parts.tag = "scalar" THEN Threw
    ELSE Returned(TextFragments(content.parts.items))

handleMultimodalText(content) ==
    IF content.parts.tag = "scalar" THEN Threw
    ELSE Returned(TextFragments(content.parts.items))

handleCode(content) ==
    Returned(<< [Fragment(CONTENT_TYPES.CODE, content.text)
                  EXCEPT !.language = IF content.language # "" THEN content.language
                                      ELSE "python"] >>)

handleExecutionOutput(content) ==
    IF content.text = "" THEN Returned(<< >>)
    ELSE Returned(<< Fragment(CONTENT_TYPES.EXECUTION_OUTPUT, content.text) >>)

handleBrowsingDisplay(content) ==
    IF content.result = "" THEN Returned(<< >>)
    ELSE Returned(<< Fragment(CONTENT_TYPES.BROWSING_DISPLAY, content.result) >>)

handleBrowsingQuote(content) ==
    Returned(<< [Fragment(CONTENT_TYPES.BROWSING_QUOTE, content.text)
                  EXCEPT !.title = content.title, !.url = content.url] >>)

RECURSIVE UnknownFragments(_)
UnknownFragments(parts) ==
    IF parts = << >> THEN << >>
    ELSE LET part == Head(parts)
         IN  (IF part.k = "string" /\ Trim(part.s) # ""
              THEN << Fragment(CONTENT_TYPES.UNKNOWN, part.s) >> ELSE << >>)
             \o UnknownFragments(Tail(parts))

\* a number has no length: `parts.length` is then undefined and the loop is skipped
handleUnknown(content) ==
    LET ctName == IF content.content_type \in {NULL, ""} THEN "unknown"
                  ELSE content.content_type
        result == IF content.text # ""
                  THEN << Fragment(CONTENT_TYPES.UNKNOWN, content.text) >>
                  ELSE UnknownFragments(content.parts.items)
    IN  IF result = << >>
        THEN Returned(<< Fragment(CONTENT_TYPES.UNKNOWN,
                                  "[Unsupported content type: " \o ctName \o "]") >>)
        ELSE Returned(result)

\* the own keys of the HANDLERS object literal
HandledTypes ==
    {"text", "code", "execution_output", "tether_browsing_display", "tether_quote",
     "multimodal_text"}

\* HANDLERS is a plain object, so HANDLERS[contentType] also finds what the
\* object inherits from Object.prototype.  "__proto__" reads the prototype
\* object itself (truthy, not callable: the call throws a TypeError);
\* "toString" reads Object.prototype.toString, which called as
\* handler(rawContent) returns the string "[object Undefined]".
InheritedKeys == {"__proto__", "toString"}

renderContent(content) ==
    LET contentType == IF content.content_type \in {NULL, ""} THEN "text"
                       ELSE content.content_type
    IN  CASE contentType = "text"                    -> handleText(content)
          [] contentType = "code"                    -> handleCode(content)
          [] contentType = "execution_output"        -> handleExecutionOutput(content)
          [] contentType = "tether_browsing_display" -> handleBrowsingDisplay(content)
          [] contentType = "tether_quote"            -> handleBrowsingQuote(content)
          [] contentType = "multimodal_text"         -> handleMultimodalText(content)
          [] contentType = "__proto__"               -> Threw
          [] contentType = "toString"                -> ReturnedNoList
          [] OTHER                                   -> handleUnknown(content)

-----------------------------------------------------------------------------
(***************************************************************************)
(* Raw records (spec section 6, input contract).                           *)
(***************************************************************************)

\* a message of a node; role is NULL when author or author.role is absent,
\* flag is metadata.is_user_system_message, slug is metadata.model_slug
RawMessage(role, flag, content, slug) ==
    [present |-> TRUE, id |-> "", role |-> role, flag |-> flag, content |-> content,
     slug |-> slug]

\* node.message null or absent
NoMessage == [RawMessage(NULL, FALSE, NoContent, "") EXCEPT !.present = FALSE]

\* a node of the mapping; children is `node.children || []`
RawNode(parent, children, message) ==
    [isNull |-> FALSE, parent |-> parent, children |-> children, message |-> message]

\* a mapping entry whose value is null
NullNode == [RawNode(NULL, << >>, NoMessage) EXCEPT !.isNull = TRUE]

\* A mapping is the sequence of its entries [id, node] in Object.entries order.
Keys(mapping) == {mapping[i].id : i \in 1..Len(mapping)}

\* mapping[id]; callers test HasNode first (`if (!node) break`)
NodeOf(mapping, id) ==
    mapping[CHOOSE i \in 1..Len(mapping) : mapping[i].id = id].node

\* !!mapping[id]: the id is a key and its value is not null
HasNode(mapping, id) ==
    \E i \in 1..Len(mapping) : mapping[i].id = id /\ ~mapping[i].node.isNull

-----------------------------------------------------------------------------
(***************************************************************************)
(* parser.js: parseConversations, traverseTree, parseMessage,              *)
(* countMessages.                                                          *)
(***************************************************************************)

VALID_ROLES == {"user", "assistant", "system", "tool"}

\* The root search of traverseTree: the id of the first entry whose node has
\* no parent, NULL when there is none, "threw" when the search reads
\* `node.parent` of a null entry before it finds one.
RECURSIVE FindRoot(_)
FindRoot(entries) ==
    IF entries = << >> THEN NULL
    ELSE IF Head(entries).node.isNull THEN "threw"
    ELSE IF Head(entries).node.parent = NULL THEN Head(entries).id
    ELSE FindRoot(Tail(entries))

\* a walk that takes the first child
FirstChild(children) == children[1]

\* the child the forward walk moves to: children[children.length - 1]
NextChild(children) == children[Len(children)]

\* parts.some(p => string with text, or non-null object)
HasContent(items) ==
    \E i \in 1..Len(items) :
        \/ items[i].k = "string" /\ Trim(items[i].s) # ""
        \/ items[i].k = "object"

\* drop rules that let a flagged tool message through, as a flagged system
\* message is
VerdictFlaggedTool(msg) ==
    LET role == IF msg.role = NULL THEN "" ELSE msg.role
        content == msg.content
    IN  IF role \in {"system", "tool"} /\ ~msg.flag THEN "drop"
        ELSE IF content.nil \/ content.parts.tag = "absent" THEN "drop"
        ELSE IF content.parts.tag = "scalar" THEN "threw"
        ELSE IF ~HasContent(content.parts.items) /\ content.content_type = "text" THEN "drop"
        ELSE "keep"

\* The drop rules of the backward walk for a non-null message:
\* "keep", "drop", or "threw" (parts.some on a value that is no array).
Verdict(msg) ==
    LET role == IF msg.role = NULL THEN "" ELSE msg.role
        content == msg.content
    IN  IF role = "system" /\ ~msg.flag THEN "drop"
        ELSE IF role = "tool" THEN "drop"
        ELSE IF content.nil \/ content.parts.tag = "absent" THEN "drop"
        ELSE IF content.parts.tag = "scalar" THEN "threw"
        ELSE IF ~HasContent(content.parts.items) /\ content.content_type = "text" THEN "drop"
        ELSE "keep"

Reverse(seq) == [i \in 1..Len(seq) |-> seq[Len(seq) + 1 - i]]

\* parseMessage: the Message of a raw message, with what renderContent did
parseMessage(raw) ==
    LET roleStr == IF raw.role \in {NULL, ""} THEN "user" ELSE raw.role
        content == IF raw.content.nil THEN EmptyPayload ELSE raw.content
        rendering == renderContent(content)
    IN  [id |-> raw.id,
         authorRole |-> IF roleStr \in VALID_ROLES THEN roleStr ELSE "user",
         contentParts |-> rendering.frags,
         rendering |-> rendering.outcome,
         modelSlug |-> raw.slug]

\* rawMessages.map(parseMessage); it throws when renderContent throws
ParseAll(rawMessages) == [i \in 1..Len(rawMessages) |-> parseMessage(rawMessages[i])]

ParseThrows(rawMessages) ==
    \E i \in 1..Len(rawMessages) : parseMessage(rawMessages[i]).rendering = "threw"

\* countMessages reads node.message of every value: a null entry throws
CountThrows(mapping) == \E i \in 1..Len(mapping) : mapping[i].node.isNull

countMessages(mapping) ==
    Cardinality({i \in 1..Len(mapping) :
        /\ mapping[i].node.message.present
        /\ mapping[i].node.message.role \in {"user", "assistant"}})

\* the two shapes parseConversations pushes
Conversation(rawConv, msgs) ==
    [id |-> rawConv.id, meta |-> FALSE, messages |-> msgs, messageCount |-> 0]

ConversationMeta(rawConv) ==
    [id |-> rawConv.id, meta |-> TRUE, messages |-> << >>,
     messageCount |-> countMessages(rawConv.mapping)]

-----------------------------------------------------------------------------
(***************************************************************************)
(* The inputs of parseConversations.                                       *)
(***************************************************************************)

\* the longest children list of a generated node
MaxKids == 2

\* the longest generated input array
MaxRecords == 2

\* how many messages beyond one per node the messages array of traverseTree
\* can hold before the engine gives up (heap exhaustion, a RangeError)
HeapSlack == 1

TextPayload(s) == Payload("text", Parts(<< StrPart(s) >>), "", "")

\* the raw message of each kind, for the node `id`
MessageOfKind(kind, id) ==
    LET m == CASE kind = "none"          -> NoMessage
               [] kind = "user"          -> RawMessage("user", FALSE, TextPayload("hi"), "")
               [] kind = "assistant"     -> RawMessage("assistant", FALSE, TextPayload("yo"), "gpt-4")
               [] kind = "system"        -> RawMessage("system", FALSE, TextPayload("sys"), "")
               [] kind = "systemFlagged" -> RawMessage("system", TRUE, TextPayload("sys"), "")
               [] kind = "systemFlaggedNoContent" -> RawMessage("system", TRUE, NoContent, "")
               [] kind = "tool"          -> RawMessage("tool", FALSE, TextPayload("out"), "")
               [] kind = "toolFlagged"   -> RawMessage("tool", TRUE, TextPayload("out"), "")
               [] kind = "noContent"     -> RawMessage("user", FALSE, NoContent, "")
               [] kind = "noParts"       -> RawMessage("assistant", FALSE,
                                                Payload("code", NoParts, "x = 1", ""), "gpt-4")
               [] kind = "blankText"     -> RawMessage("user", FALSE,
                                                Payload("text", Parts(<< StrPart(""), StrPart(" ") >>), "", ""), "")
               [] kind = "blankMultimodal" -> RawMessage("user", FALSE,
                                                Payload("multimodal_text", Parts(<< StrPart(" ") >>), "", ""), "")
               [] kind = "noAuthor"      -> RawMessage(NULL, FALSE, TextPayload("hi"), "")
               [] kind = "otherRole"     -> RawMessage("critic", FALSE, TextPayload("hm"), "")
               [] kind = "scalarParts"   -> RawMessage("user", FALSE,
                                                Payload("text", ScalarParts, "", ""), "")
               [] kind = "unknownType"   -> RawMessage("assistant", FALSE,
                                                Payload("unknown_format", Parts(<< StrPart("hi") >>), "", ""), "")
               [] kind = "protoType"     -> RawMessage("assistant", FALSE,
                                                Payload("__proto__", Parts(<< StrPart("hi") >>), "", ""), "")
               [] kind = "emptyOutput"   -> RawMessage("assistant", FALSE,
                                                Payload("execution_output", Parts(<< >>), "", ""), "")
               [] kind = "bareObject"    -> RawMessage("user", FALSE,
                                                Payload("text", Parts(<< ObjPart("", "", "", "") >>), "", ""), "")
               [] kind = "imagePart"     -> RawMessage("user", FALSE,
                                                Payload("multimodal_text",
                                                        Parts(<< ObjPart("image_asset_pointer", "file-1", "", "") >>),
                                                        "", ""), "")
    IN  [m EXCEPT !.id = id]

Entry(id, node) == [id |-> id, node |-> node]

RawRecord(id, mapping) == [id |-> id, mapping |-> mapping]

\* all sequences over S of length at most n
SeqUpTo(S, n) == UNION {[1..k -> S] : k \in 0..n}

\* all orderings of the finite set S
Orderings(S) ==
    {s \in [1..Cardinality(S) -> S] : \A i, j \in 1..Cardinality(S) : i # j => s[i] # s[j]}

(* Well-formed trees: one root, every other node below it, and the children *)
(* lists hold exactly the nodes whose parent pointer names the node.        *)
TreeKinds ==
    {"none", "user", "assistant", "system", "systemFlagged", "systemFlaggedNoContent",
     "tool", "toolFlagged", "noContent", "noParts", "blankText", "blankMultimodal"}

TreeKeyOrders == {<< "a" >>, << "a", "b" >>, << "a", "b", "c" >>}

Range(seq) == {seq[i] : i \in 1..Len(seq)}

IsTreeParent(K, par) ==
    /\ Cardinality({n \in K : par[n] = NULL}) = 1
    /\ \E rank \in [K -> 0..Cardinality(K) - 1] :
          \A n \in K : par[n] # NULL => rank[par[n]] < rank[n]

KidsOf(K, par, n) == {m \in K : par[m] = n}

\* the shapes [par, ch] of the trees over the key set K
TreeShapes(K) ==
    LET AllOrders == UNION {Orderings(S) : S \in SUBSET K}
    IN  UNION { { [par |-> par, ch |-> ch] :
                  ch \in {c \in [K -> AllOrders] :
                             \A n \in K : c[n] \in Orderings(KidsOf(K, par, n))} } :
                par \in {q \in [K -> K \cup {NULL}] : IsTreeParent(K, q)} }

\* the tree over the keys ks (in Object.entries order) with the shape sh and
\* the message kinds kind
Tree(ks, sh, kind) ==
    [i \in 1..Len(ks) |->
        Entry(ks[i], RawNode(sh.par[ks[i]], sh.ch[ks[i]], MessageOfKind(kind[ks[i]], ks[i])))]

(* Arbitrary graphs over two keys: any parent pointer, any children list,  *)
(* ids that are no key of the mapping, null entries.                       *)
GraphKeys == << "a", "b" >>

GraphIds == {"a", "b", "x"}

GraphKinds == {"none", "user"}

GraphNodes(id) ==
    {NullNode} \cup
    { RawNode(parent, children, MessageOfKind(kind, id)) :
      parent \in GraphIds \cup {NULL}, children \in SeqUpTo(GraphIds, MaxKids),
      kind \in GraphKinds }

Graph(n1, n2) == << Entry(GraphKeys[1], n1), Entry(GraphKeys[2], n2) >>

(* Sample records for arrays of several records.                           *)
Leaf(id, parent, kind) == Entry(id, RawNode(parent, << >>, MessageOfKind(kind, id)))

Root(id, child, kind) == Entry(id, RawNode(NULL, << child >>, MessageOfKind(kind, id)))

SampleRecords ==
    { RawRecord("chain",       << Root("a", "b", "user"), Leaf("b", "a", "assistant") >>),
      RawRecord("empty",       << >>),
      RawRecord("noRoot",      << Leaf("a", "b", "user"), Leaf("b", "a", "user") >>),
      RawRecord("nullFirst",   << Entry("a", NullNode), Leaf("b", NULL, "user") >>),
      RawRecord("nullLast",    << Root("a", "b", "user"), Entry("b", NullNode) >>),
      RawRecord("scalarParts", << Root("a", "b", "user"), Leaf("b", "a", "scalarParts") >>),
      RawRecord("loose",       << Root("a", "b", "noAuthor"), Leaf("b", "a", "otherRole") >>),
      RawRecord("unknownType", << Root("a", "b", "user"), Leaf("b", "a", "unknownType") >>),
      RawRecord("protoType",   << Root("a", "b", "user"), Leaf("b", "a", "protoType") >>),
      RawRecord("emptyOutput", << Root("a", "b", "user"), Leaf("b", "a", "emptyOutput") >>),
      RawRecord("bareObject",  << Root("a", "b", "bareObject"), Leaf("b", "a", "assistant") >>),
      RawRecord("imagePart",   << Root("a", "b", "imagePart"), Leaf("b", "a", "assistant") >>) }

\* the input arrays: one record with a generated mapping, or up to MaxRecords
\* sample records
IsInput(array) ==
    \/ \E ks \in TreeKeyOrders : \E sh \in TreeShapes(Range(ks)) :
       \E kind \in [Range(ks) -> TreeKinds] :
          array = << RawRecord("tree", Tree(ks, sh, kind)) >>
    \/ \E n1 \in GraphNodes(GraphKeys[1]) : \E n2 \in GraphNodes(GraphKeys[2]) :
          array = << RawRecord("graph", Graph(n1, n2)) >>
    \/ array \in SeqUpTo(SampleRecords, MaxRecords)

-----------------------------------------------------------------------------
(***************************************************************************)
(* parseConversations as a state machine: one step per record, and one     *)
(* step per iteration of the two loops of traverseTree.                    *)
(***************************************************************************)

RenderIdle == rawContent = EmptyPayload /\ rendered = Returned(<< >>)

\* a Conversation as the document stages read it; createdAt and updatedAt are
\* NULL or the ISO-8601 text of the Date, modelSlugs is a set
ConversationOf(id, title, createdAt, updatedAt, msgs, modelSlugs) ==
    [id |-> id, title |-> title, createdAt |-> createdAt, updatedAt |-> updatedAt,
     messages |-> msgs, modelSlugs |-> modelSlugs]

NoConversation == ConversationOf("", "", NULL, NULL, << >>, {})

SplitIdle == conversation = NoConversation /\ maxSize = 0 /\ splitParts = << >>

PathIdle == organize = "monthly" /\ usedPaths = << >> /\ calls = << >> /\ returned = << >>

ClusterIdle ==
    clusterInput = << >> /\ topKeywords = << >> /\ clusters = << >> /\ labelled = << >>

KnowIdle ==
    /\ kbClusters = << >> /\ profileMarkdown = "" /\ knowledgeSummaries = << >>
    /\ zipFiles = << >> /\ sent = << >> /\ enhResults = << >> /\ enhStatus = ""

Pending == [state |-> "pending", reason |-> ""]

WorkerIdle ==
    /\ worker = "none" /\ stage = 0 /\ posted = << >> /\ handled = 0
    /\ promise = Pending /\ settleCalls = 0 /\ session = NULL /\ progressShown = << >>

\* a path that has not run
NotRun == [ran |-> FALSE, conversations |-> << >>, stats |-> << >>]

PipeIdle == pipeInput = << >> /\ mainSession = NotRun /\ workerSession = NotRun

\* no call of jaccardSimilarity yet
NoSim == [called |-> FALSE, num |-> 0, den |-> 1]

JacIdle == jacA = << >> /\ jacB = << >> /\ jacSim = NoSim

SanIdle == sanTitle = "" /\ sanMaxLength = 0 /\ sanName = NULL

\* before the first call of two has returned
NotReturned == [ran |-> FALSE, topKeywords |-> << >>, sorts |-> << >>, labelled |-> << >>]

TwiceIdle == sorts = << >> /\ firstRun = NotReturned

\* a property that is not there (undefined)
Absent == [kind |-> "absent", n |-> 0, s |-> ""]

\* null, a Date with a time value (in seconds), a Date whose time value is NaN
NullStamp   == [isDate |-> FALSE, valid |-> FALSE, time |-> 0]
JsDate(seconds) == [isDate |-> TRUE, valid |-> TRUE, time |-> seconds]
InvalidDate == [isDate |-> TRUE, valid |-> FALSE, time |-> 0]

\* no conversation parsed yet
NotParsed == [path |-> "none", createdAt |-> NullStamp, updatedAt |-> NullStamp]

\* a stage that has not run, one that returned text, one that threw
NotCalled == [state |-> "not called", text |-> ""]
Gave(text) == [state |-> "returned", text |-> text]
Raised(error) == [state |-> "threw", text |-> error]

NoOutput == [frontmatter |-> NotCalled, index |-> NotCalled, path |-> NotCalled,
             range |-> NotCalled]

StampIdle == tsCreate = Absent /\ tsUpdate = Absent /\ tsConv = NotParsed /\ tsOut = NoOutput

\* no call of analyzeCommunicationStyle yet
NoStyle == [called |-> FALSE, verbosity |-> "", codeFirst |-> FALSE, usesMarkdown |-> FALSE,
            questionStyle |-> ""]

StyleIdle == styleMessages = << >> /\ style = NoStyle

\* the value of a session variable: empty (of archive 0) or computed from
\* archive `of`, by the heuristics or by the AI enhancement
Empty == [of |-> 0, enhanced |-> FALSE]
Of(archive) == [of |-> archive, enhanced |-> FALSE]
EnhancedOf(archive) == [of |-> archive, enhanced |-> TRUE]

\* the session variables as the module declares them
NoSession ==
    [metadata |-> Empty, conversations |-> Empty, stats |-> Empty, clusters |-> Empty,
     profile |-> Empty, profileMarkdown |-> Empty, knowledgeSummaries |-> Empty,
     selectedIds |-> Empty]

Hidden == [hidden |-> TRUE, textContent |-> ""]

\* no call of handleFile yet
NoUpload == [pc |-> "none", archive |-> 0, path |-> "", errors |-> 0, percent |-> 0,
             before |-> NoSession]

\* no call of handleEnhance in progress
NoEnhance == [pc |-> "none", of |-> 0, clustersOf |-> 0, resetSince |-> FALSE]

AppIdle ==
    /\ currentState = "LANDING" /\ app = NoSession /\ banner = Hidden
    /\ upload = NoUpload /\ enhance = NoEnhance /\ uploads = 0

UnitIdle == JacIdle /\ SanIdle /\ TwiceIdle /\ StampIdle /\ StyleIdle /\ AppIdle
IdleBesideJac == SanIdle /\ TwiceIdle /\ StampIdle /\ StyleIdle /\ AppIdle
IdleBesideSan == JacIdle /\ TwiceIdle /\ StampIdle /\ StyleIdle /\ AppIdle
IdleBesideTwice == JacIdle /\ SanIdle /\ StampIdle /\ StyleIdle /\ AppIdle
IdleBesideStamp == JacIdle /\ SanIdle /\ TwiceIdle /\ StyleIdle /\ AppIdle
IdleBesideStyle == JacIdle /\ SanIdle /\ TwiceIdle /\ StampIdle /\ AppIdle
IdleBesideApp == JacIdle /\ SanIdle /\ TwiceIdle /\ StampIdle /\ StyleIdle

LateIdle == KnowIdle /\ WorkerIdle /\ PipeIdle /\ UnitIdle


ExtIdle == ClusterIdle /\ LateIdle

InitParse ==
    /\ IsInput(rawData)
    /\ metadataOnly \in BOOLEAN
    /\ idx = 1
    /\ results = << >>
    /\ pc = "loop"
    /\ thrown = ""
    /\ leafId = NULL
    /\ currentId = NULL
    /\ messages = << >>
    /\ turn = 0
    /\ RenderIdle /\ SplitIdle /\ PathIdle /\ ExtIdle

\* results.push(conv) at the end of the loop body
Push(conv) ==
    /\ results' = Append(results, conv)
    /\ idx' = idx + 1
    /\ pc' = "loop"
    /\ leafId' = NULL
    /\ currentId' = NULL
    /\ messages' = << >>
    /\ turn' = 0
    /\ UNCHANGED thrown

\* an exception leaves parseConversations: nothing is returned
Throw(expression) ==
    /\ pc' = "threw"
    /\ thrown' = expression
    /\ UNCHANGED <<results, idx, leafId, currentId, messages, turn>>

\* the loop body up to the root search of traverseTree
ParseRecord ==
    /\ pc = "loop"
    /\ idx <= Len(rawData)
    /\ LET rawConv == rawData[idx]
           mapping == rawConv.mapping
           rootId  == FindRoot(mapping)
       IN  IF metadataOnly
           THEN IF CountThrows(mapping) THEN Throw("node.message") ELSE Push(ConversationMeta(rawConv))
           ELSE IF mapping = << >> THEN Push(Conversation(rawConv, << >>))
           ELSE IF rootId = "threw" THEN Throw("node.parent")
           ELSE IF rootId = NULL THEN Push(Conversation(rawConv, << >>))
           ELSE /\ pc' = "forward"
                /\ leafId' = rootId
                /\ UNCHANGED <<results, idx, thrown, currentId, messages, turn>>
    /\ UNCHANGED <<rawData, metadataOnly, renderVars, splitVars, pathVars, extVars>>

\* one iteration of `while (true)`: walk forward to find the leaf
WalkForward ==
    /\ pc = "forward"
    /\ LET mapping == rawData[idx].mapping
       IN  IF HasNode(mapping, leafId) /\ NodeOf(mapping, leafId).children # << >>
           THEN /\ leafId' = NextChild(NodeOf(mapping, leafId).children)
                /\ turn' = 1 - turn
                /\ UNCHANGED <<pc, currentId, messages>>
           ELSE /\ pc' = "backward"
                /\ currentId' = leafId
                /\ messages' = << >>
                /\ turn' = 0
                /\ UNCHANGED leafId
    /\ UNCHANGED <<rawData, metadataOnly, idx, results, thrown, renderVars, splitVars,
                   pathVars, extVars>>

\* one iteration of `while (currentId != null)`, or the exit of the loop with
\* the rest of the loop body of parseConversations
WalkBackward ==
    /\ pc = "backward"
    /\ LET rawConv == rawData[idx]
           mapping == rawConv.mapping
           node    == NodeOf(mapping, currentId)
           msg     == node.message
           verdict == IF msg.present THEN Verdict(msg) ELSE "drop"
           rawMessages == Reverse(messages)
       IN  IF currentId # NULL /\ HasNode(mapping, currentId)
           THEN IF verdict = "threw" THEN Throw("parts.some")
                ELSE IF verdict = "keep" /\ Len(messages) >= Len(mapping) + HeapSlack
                THEN Throw("messages.push")
                ELSE /\ messages' = IF verdict = "keep" THEN Append(messages, msg)
                                    ELSE messages
                     /\ currentId' = node.parent
                     /\ turn' = 1 - turn
                     /\ UNCHANGED <<pc, idx, results, thrown, leafId>>
           ELSE IF ParseThrows(rawMessages) THEN Throw("handler")
                ELSE Push(Conversation(rawConv, ParseAll(rawMessages)))
    /\ UNCHANGED <<rawData, metadataOnly, renderVars, splitVars, pathVars, extVars>>

\* `return results`
ReturnResults ==
    /\ pc = "loop"
    /\ idx > Len(rawData)
    /\ pc' = "returned"
    /\ UNCHANGED <<rawData, metadataOnly, idx, results, thrown, leafId, currentId,
                   messages, turn, renderVars, splitVars, pathVars, extVars>>

NextParse == ParseRecord \/ WalkForward \/ WalkBackward \/ ReturnResults

SpecParse == InitParse /\ [][NextParse]_vars

\* the program keeps running while a step is possible
SpecParseFair == SpecParse /\ WF_vars(NextParse)

-----------------------------------------------------------------------------
(***************************************************************************)
(* Properties of the tree reconstruction.                                  *)
(***************************************************************************)

ParentIn(mapping, id) == NodeOf(mapping, id).parent

\* one root, parent and children pointers name keys and agree with each other
WellFormed(mapping) ==
    LET K == Keys(mapping)
    IN  /\ mapping # << >>
        /\ \A i \in 1..Len(mapping) : ~mapping[i].node.isNull
        /\ Cardinality({n \in K : ParentIn(mapping, n) = NULL}) = 1
        /\ \A n \in K :
              LET children == NodeOf(mapping, n).children
              IN  /\ ParentIn(mapping, n) \in K \cup {NULL}
                  /\ Range(children) = {m \in K : ParentIn(mapping, m) = n}
                  /\ Cardinality(Range(children)) = Len(children)
        /\ \E rank \in [K -> 0..Cardinality(K) - 1] :
              \A n \in K : ParentIn(mapping, n) # NULL => rank[ParentIn(mapping, n)] < rank[n]

\* every content.parts that is present is an array
ArrayParts(mapping) ==
    \A i \in 1..Len(mapping) : mapping[i].node.message.content.parts.tag # "scalar"

\* the ids from id down to a leaf, taking the last child at every node
RECURSIVE LastChildPath(_, _)
LastChildPath(mapping, id) ==
    LET children == NodeOf(mapping, id).children
    IN  IF children = << >> THEN << id >>
        ELSE << id >> \o LastChildPath(mapping, children[Len(children)])

RootOf(mapping) == CHOOSE n \in Keys(mapping) : ParentIn(mapping, n) = NULL

SelectedPath(mapping) == LastChildPath(mapping, RootOf(mapping))

Survives(mapping, id) ==
    /\ NodeOf(mapping, id).message.present
    /\ Verdict(NodeOf(mapping, id).message) = "keep"

IdsOf(msgs) == [i \in 1..Len(msgs) |-> msgs[i].id]

\* the full results pushed so far, by position in rawData
FullResults == {i \in 1..Len(results) : ~results[i].meta}

\* C1: for a well-formed tree, the messages of a full result are exactly the
\* messages of the last-child path that survive the drop rules, in
\* root-to-leaf order, and the traversal raises nothing
C1_LastChildPath ==
    /\ \A i \in FullResults :
          LET mapping == rawData[i].mapping
          IN  WellFormed(mapping) =>
                 IdsOf(results[i].messages) =
                    SelectSeq(SelectedPath(mapping), LAMBDA id : Survives(mapping, id))
    /\ (pc = "threw" /\ ~metadataOnly /\ WellFormed(rawData[idx].mapping)
           /\ ArrayParts(rawData[idx].mapping))
          => thrown = "handler"

\* a fork whose first child carries a keepable message: the result holds the
\* root and the last child only
C1_Witness ==
    /\ pc = "returned"
    /\ FullResults = {1}
    /\ LET mapping == rawData[1].mapping
       IN  /\ WellFormed(mapping)
           /\ Len(NodeOf(mapping, "a").children) = 2
           /\ \A n \in Keys(mapping) : Survives(mapping, n)
           /\ LET children == NodeOf(mapping, "a").children
              IN  IdsOf(results[1].messages) = << "a", children[2] >>

\* the content rules of the backward walk: a payload with a parts array that
\* is not a text payload of blank parts only
PassesContentRules(msg) ==
    /\ ~msg.content.nil
    /\ msg.content.parts.tag = "array"
    /\ (HasContent(msg.content.parts.items) \/ msg.content.content_type # "text")

\* the messages of the selected path of a well-formed tree, with whether the
\* full result i holds them
OnPath(i) ==
    LET mapping == rawData[i].mapping
    IN  { [msg |-> NodeOf(mapping, id).message,
           included |-> id \in Range(IdsOf(results[i].messages))] :
          id \in {n \in Range(SelectedPath(mapping)) : NodeOf(mapping, n).message.present} }

\* C2 (as amended): on the selected path, a system message without the flag is
\* excluded, a tool message is excluded whatever its flag, and a system
\* message with the flag is included when it passes the content rules
C2_RoleFiltering ==
    \A i \in FullResults :
        WellFormed(rawData[i].mapping) =>
            \A m \in OnPath(i) :
                /\ (m.msg.role = "system" /\ ~m.msg.flag) => ~m.included
                /\ m.msg.role = "tool" => ~m.included
                /\ (m.msg.role = "system" /\ m.msg.flag /\ PassesContentRules(m.msg))
                      => m.included

\* C2 as stated: every system message with the flag is included
C2_FlaggedSystemIncluded ==
    \A i \in FullResults :
        WellFormed(rawData[i].mapping) =>
            \A m \in OnPath(i) :
                /\ (m.msg.role = "system" /\ ~m.msg.flag) => ~m.included
                /\ m.msg.role = "tool" => ~m.included
                /\ (m.msg.role = "system" /\ m.msg.flag) => m.included

\* a chain of a flagged system message, an unflagged one and a flagged tool
\* message: the result holds the first only
C2_Witness ==
    /\ pc = "returned"
    /\ FullResults = {1}
    /\ LET mapping == rawData[1].mapping
       IN  /\ WellFormed(mapping)
           /\ SelectedPath(mapping) = << "a", "b", "c" >>
           /\ NodeOf(mapping, "a").message = MessageOfKind("systemFlagged", "a")
           /\ NodeOf(mapping, "b").message = MessageOfKind("system", "b")
           /\ NodeOf(mapping, "c").message = MessageOfKind("toolFlagged", "c")
           /\ IdsOf(results[1].messages) = << "a" >>

\* C3: for every finite mapping, malformed ones included, the reconstruction
\* comes to an end: parseConversations returns or an error is raised
C3_Terminates == <>(pc \in {"returned", "threw"})

\* C4: parseConversations raises nothing, and what it returns holds one result
\* per input record, in input order
C4_OneResultPerRecord ==
    /\ pc # "threw"
    /\ pc = "returned" =>
          /\ Len(results) = Len(rawData)
          /\ \A i \in 1..Len(rawData) : results[i].id = rawData[i].id

-----------------------------------------------------------------------------
(***************************************************************************)
(* renderContent on its own: every call renders one payload.               *)
(***************************************************************************)

\* the longest generated parts array
MaxParts == 2

SampleParts ==
    { StrPart(""), StrPart(" "), StrPart("hi"), StrPart("yo"),
      ObjPart("image_asset_pointer", "file-1", "", ""),
      ObjPart("", "", "", "inline"),
      NullPart }

SampleContentTypes ==
    {NULL, "unknown_format"} \cup HandledTypes \cup InheritedKeys

SamplePayloads ==
    { Payload(ct, parts, text, result) :
      ct \in SampleContentTypes,
      parts \in {NoParts} \cup {Parts(items) : items \in SeqUpTo(SampleParts, MaxParts)},
      text \in {"", "hello"},
      result \in {"", "res"} }

ParseIdle ==
    /\ rawData = << >> /\ metadataOnly = FALSE /\ idx = 1 /\ results = << >>
    /\ pc = "idle" /\ thrown = "" /\ leafId = NULL /\ currentId = NULL
    /\ messages = << >> /\ turn = 0

InitRender == ParseIdle /\ RenderIdle /\ SplitIdle /\ PathIdle /\ ExtIdle

\* a call renderContent(content), from the call to its end
RenderContent ==
    /\ pc = "idle"
    /\ \E content \in SamplePayloads :
          /\ rawContent' = content
          /\ rendered' = renderContent(content)
    /\ pc' = "done"
    /\ UNCHANGED <<rawData, metadataOnly, idx, results, thrown, leafId, currentId,
                   messages, turn, splitVars, pathVars, extVars>>

NextRender == RenderContent

SpecRender == InitRender /\ [][NextRender]_vars

\* the text a payload can be inspected for: its text field and its non-blank
\* string parts
InspectableText(content) ==
    ({content.text} \ {""})
    \cup {content.parts.items[i].s : i \in {j \in 1..Len(content.parts.items) :
              /\ content.parts.items[j].k = "string"
              /\ Trim(content.parts.items[j].s) # ""}}

\* C5: a payload with a text field or a non-blank string part never renders to
\* zero fragments: the call returns a non-empty fragment list, and a fragment
\* of it carries that text
C5_NeverDropsText ==
    InspectableText(rawContent) # {} =>
        /\ rendered.outcome = "list"
        /\ rendered.frags # << >>
        /\ \E i \in 1..Len(rendered.frags) : rendered.frags[i].text \in InspectableText(rawContent)

NonBlankStrings(items) ==
    SelectSeq(items, LAMBDA part : part.k = "string" /\ Trim(part.s) # "")

\* C6: for a content type that is none of the handled ones the call returns
\* one unknown fragment with the text field when there is one, else one
\* unknown fragment per non-blank string part in order, else one placeholder
\* naming the type; it never raises and never returns an empty list
C6_FallbackIsTotal ==
    (rawContent.content_type \notin HandledTypes \cup {NULL, ""}) =>
        LET strings == NonBlankStrings(rawContent.parts.items)
        IN  /\ rendered.outcome = "list"
            /\ rendered.frags =
                  IF rawContent.text # ""
                  THEN << Fragment("unknown", rawContent.text) >>
                  ELSE IF strings # << >>
                  THEN [i \in 1..Len(strings) |-> Fragment("unknown", strings[i].s)]
                  ELSE << Fragment("unknown",
                          "[Unsupported content type: " \o rawContent.content_type \o "]") >>

-----------------------------------------------------------------------------
(***************************************************************************)
(* markdown-writer.js: conversationToMarkdown.  Documents are strings; the *)
(* splitter reads their length.                                            *)
(***************************************************************************)

ROLE_LABELS(role) ==
    CASE role = "user"      -> "User"
      [] role = "assistant" -> "Assistant"
      [] role = "system"    -> "System"
      [] role = "tool"      -> "Tool"
      [] OTHER              -> role

\* lines.join(sep)
RECURSIVE Join(_, _)
Join(lines, sep) ==
    IF lines = << >> THEN ""
    ELSE IF Len(lines) = 1 THEN lines[1]
    ELSE lines[1] \o sep \o Join(Tail(lines), sep)

\* the titles of the generated conversations
SampleTitles == {"T", "Q: it's"}

\* the scalar line value of toYaml: a string that holds a colon or an
\* apostrophe is single-quoted, with every apostrophe doubled
YamlScalar(value) ==
    CASE value = "Q: it's" -> "'Q: it''s'"
      [] value = "2023-11-14T22:13:20.000Z" -> "'2023-11-14T22:13:20.000Z'"
      [] OTHER -> value

\* the URL of the generated fragments, and encodeURI on it
SampleUrl == "https://e.org/a b"

encodeURI(url) == IF url = "https://e.org/a b" THEN "https://e.org/a%20b" ELSE url

\* [...modelSlugs].sort(), over the slugs of the generated messages
SortedSlugs(modelSlugs) ==
    SelectSeq(<< "gpt-4", "o1" >>, LAMBDA slug : slug \in modelSlugs)

toYaml(conv) ==
    Join(<< "title: " \o YamlScalar(conv.title), "source: chatgpt-export" >>
         \o (IF conv.createdAt # NULL THEN << "created: " \o YamlScalar(conv.createdAt) >>
             ELSE << >>)
         \o (IF conv.updatedAt # NULL THEN << "updated: " \o YamlScalar(conv.updatedAt) >>
             ELSE << >>)
         \o (IF conv.modelSlugs # {}
             THEN << "models:" >>
                  \o [i \in 1..Len(SortedSlugs(conv.modelSlugs)) |->
                         "- " \o SortedSlugs(conv.modelSlugs)[i]]
             ELSE << >>)
         \o << "message_count: " \o ToString(Len(conv.messages)) >>,
         "\n")

renderFrontmatter(conv) == "---\n" \o toYaml(conv) \o "\n---\n"

\* The fence of a code block: three grave accents in the source.  SANY reads a
\* grave accent inside a string as the opening of a quotation, so the fence is
\* written here with three tildes; its length, which the splitter reads, is
\* the same.
Fence == "~~~"

renderContentPart(part) ==
    CASE part.contentType = CONTENT_TYPES.TEXT -> part.text
      [] part.contentType = CONTENT_TYPES.CODE ->
            Fence \o part.language \o "\n" \o part.text \o "\n" \o Fence
      [] part.contentType = CONTENT_TYPES.EXECUTION_OUTPUT ->
            Fence \o "\n[Output]\n" \o part.text \o "\n" \o Fence
      [] part.contentType = CONTENT_TYPES.BROWSING_DISPLAY ->
            "> [Web Browsing Result]\n> " \o part.text
      [] part.contentType = CONTENT_TYPES.BROWSING_QUOTE ->
            Join((IF part.title = "" THEN << >>
                  ELSE IF part.url # ""
                  THEN << "> **[" \o part.title \o "](" \o encodeURI(part.url) \o ")**" >>
                  ELSE << "> **" \o part.title \o "**" >>)
                 \o (IF part.text = "" THEN << >> ELSE << "> " \o part.text >>),
                 "\n")
      [] OTHER -> part.text

renderMessage(message, includeModel) ==
    LET roleLabel == ROLE_LABELS(message.authorRole)
        header == IF includeModel /\ message.authorRole = "assistant" /\ message.modelSlug # ""
                  THEN "## " \o roleLabel \o " (" \o message.modelSlug \o ")"
                  ELSE "## " \o roleLabel
        all == [i \in 1..Len(message.contentParts) |-> renderContentPart(message.contentParts[i])]
        contentLines == SelectSeq(all, LAMBDA line : line # "")
    IN  header \o "\n\n" \o Join(contentLines, "\n\n") \o "\n"

conversationToMarkdown(conv, includeFrontmatter, includeModelInfo) ==
    IF conv.messages = << >> THEN ""
    ELSE Join((IF includeFrontmatter THEN << renderFrontmatter(conv) >> ELSE << >>)
              \o << "# " \o conv.title \o "\n" >>
              \o [i \in 1..Len(conv.messages) |-> renderMessage(conv.messages[i], includeModelInfo)],
              "\n")

-----------------------------------------------------------------------------
(***************************************************************************)
(* splitter.js: maybeSplit, splitAtMessages, makePart.                     *)
(***************************************************************************)

OVERHEAD_PER_MSG == 50

RECURSIVE TextLength(_)
TextLength(contentParts) ==
    IF contentParts = << >> THEN 0
    ELSE Len(Head(contentParts).text) + TextLength(Tail(contentParts))

\* msgSize of the packing loop
MsgSize(msg) == TextLength(msg.contentParts) + OVERHEAD_PER_MSG

SlugsOf(msgs) == {msgs[i].modelSlug : i \in 1..Len(msgs)} \ {""}

\* a part that keeps the modelSlugs of the whole conversation
makePartWithAllSlugs(original, msgs, partNum) ==
    ConversationOf(original.id \o "_part" \o ToString(partNum),
                   original.title \o " (Part " \o ToString(partNum) \o ")",
                   original.createdAt, original.updatedAt, msgs, original.modelSlugs)

makePart(original, msgs, partNum) ==
    ConversationOf(original.id \o "_part" \o ToString(partNum),
                   original.title \o " (Part " \o ToString(partNum) \o ")",
                   original.createdAt, original.updatedAt, msgs, SlugsOf(msgs))

\* The packing loop over the messages still to place, with the parts closed so
\* far, the messages of the open part and its size; at the end the open part
\* is closed when it holds a message.
RECURSIVE Pack(_, _, _, _, _, _)
Pack(original, rest, maxsz, parts, currentMessages, currentSize) ==
    IF rest = << >>
    THEN IF currentMessages # << >>
         THEN Append(parts, makePart(original, currentMessages, Len(parts) + 1))
         ELSE parts
    ELSE LET msg == Head(rest)
             msgSize == MsgSize(msg)
         IN  IF currentSize + msgSize > maxsz /\ currentMessages # << >>
             THEN Pack(original, Tail(rest), maxsz,
                       Append(parts, makePart(original, currentMessages, Len(parts) + 1)),
                       << msg >>, msgSize)
             ELSE Pack(original, Tail(rest), maxsz, parts,
                       Append(currentMessages, msg), currentSize + msgSize)

\* a packing that forgets the part still open when the messages run out
splitWithoutLastPart(conv, maxsz) ==
    IF conv.messages = << >> THEN << conv >>
    ELSE LET parts == Pack(conv, conv.messages, maxsz, << >>, << >>, 0)
         IN  IF Len(parts) <= 2 THEN << conv >> ELSE SubSeq(parts, 1, Len(parts) - 1)

splitAtMessages(conv, maxsz) ==
    IF conv.messages = << >> THEN << conv >>
    ELSE LET parts == Pack(conv, conv.messages, maxsz, << >>, << >>, 0)
         IN  IF Len(parts) = 1 THEN << conv >> ELSE parts

maybeSplit(conv, maxsz) ==
    IF Len(conversationToMarkdown(conv, TRUE, TRUE)) <= maxsz THEN << conv >>
    ELSE splitAtMessages(conv, maxsz)

(***************************************************************************)
(* The inputs of maybeSplit.                                               *)
(***************************************************************************)

\* the longest generated conversation
MaxSplitMessages == 3

\* a parsed Message
Message(role, contentParts, slug) ==
    [id |-> "", authorRole |-> role, contentParts |-> contentParts, rendering |-> "list",
     modelSlug |-> slug]

SampleMessages ==
    { Message("user", << Fragment("text", "hi") >>, ""),
      Message("assistant", << Fragment("text", "Thirty characters of an answer") >>, "gpt-4"),
      Message("assistant",
              << [Fragment("code", "print('twenty char')") EXCEPT !.language = "python"] >>, "o1"),
      Message("user",
              << Fragment("text", "A long question of forty characters, ..."),
                 Fragment("text", "and forty characters more of a question") >>, ""),
      Message("assistant",
              << [Fragment("tether_quote", "quoted") EXCEPT !.title = "Site", !.url = SampleUrl] >>,
              "gpt-4") }

SampleThresholds == {0, 60, 120, 180, 240, 300, 400}

SampleConversations ==
    { ConversationOf("c1", title, "2023-11-14T22:13:20.000Z", NULL,
                     [i \in 1..Len(msgs) |-> [msgs[i] EXCEPT !.id = "m" \o ToString(i)]],
                     SlugsOf(msgs)) :
      title \in SampleTitles, msgs \in SeqUpTo(SampleMessages, MaxSplitMessages) \ {<< >>} }

InitSplit == ParseIdle /\ RenderIdle /\ SplitIdle /\ PathIdle /\ ExtIdle

\* a call maybeSplit(conversation, maxSize), from the call to its end
MaybeSplit ==
    /\ pc = "idle"
    /\ \E conv \in SampleConversations, size \in SampleThresholds :
          /\ conversation' = conv
          /\ maxSize' = size
          /\ splitParts' = maybeSplit(conv, size)
    /\ pc' = "done"
    /\ UNCHANGED <<rawData, metadataOnly, idx, results, thrown, leafId, currentId,
                   messages, turn, renderVars, pathVars, extVars>>

NextSplit == MaybeSplit

SpecSplit == InitSplit /\ [][NextSplit]_vars

RECURSIVE MessagesOf(_)
MessagesOf(parts) ==
    IF parts = << >> THEN << >> ELSE Head(parts).messages \o MessagesOf(Tail(parts))

\* C7: for a conversation with a message, no element of the result of
\* maybeSplit is without messages, and the messages of the elements, put end
\* to end, are the messages of the conversation
C7_MessagesConserved ==
    conversation.messages # << >> =>
        /\ splitParts # << >>
        /\ \A i \in 1..Len(splitParts) : splitParts[i].messages # << >>
        /\ MessagesOf(splitParts) = conversation.messages

\* a conversation of three messages split into three parts
C7_Witness ==
    /\ Len(conversation.messages) = 3
    /\ Len(splitParts) = 3
    /\ \A i \in 1..3 : splitParts[i].messages = << conversation.messages[i] >>

\* C8: every element of the result that holds more than one message renders
\* to at most maxSize characters
C8_PartsWithinMaxSize ==
    \A i \in 1..Len(splitParts) :
        Len(splitParts[i].messages) > 1 =>
            Len(conversationToMarkdown(splitParts[i], TRUE, TRUE)) <= maxSize

-----------------------------------------------------------------------------
(***************************************************************************)
(* organizer.js: sanitizeFilename, resolveOutputPath, deduplicatePath, and *)
(* the conversation loop of convertAndDownload that calls them.  A path is *)
(* a string.                                                               *)
(***************************************************************************)

CharsOf(s) == {SubSeq(s, i, i) : i \in 1..Len(s)}

UpperCase == "ABCDEFGHIJKLMNOPQRSTUVWXYZ"
LowerCase == "abcdefghijklmnopqrstuvwxyz"

\* the class \w
WordChars == CharsOf(UpperCase) \cup CharsOf(LowerCase) \cup CharsOf("0123456789_")

\* the class [\w\-.]
NameChars == WordChars \cup {"-", "."}

\* the class [<>:"/\\|?*\x00-\x1f], over the characters of the generated titles
ReservedChars == {"<", ">", ":", "\"", "/", "\\", "|", "?", "*", "\t", "\n"}

\* the class \s once the control characters are gone
SpaceChars == {" "}

\* str.replace(/[class]/g, '') and str.replace(/[^class]/g, '')
RECURSIVE Without(_, _)
Without(str, class) ==
    IF str = "" THEN ""
    ELSE (IF SubSeq(str, 1, 1) \in class THEN "" ELSE SubSeq(str, 1, 1))
         \o Without(SubSeq(str, 2, Len(str)), class)

RECURSIVE Only(_, _)
Only(str, class) ==
    IF str = "" THEN ""
    ELSE (IF SubSeq(str, 1, 1) \in class THEN SubSeq(str, 1, 1) ELSE "")
         \o Only(SubSeq(str, 2, Len(str)), class)

\* str.replace(/^[class]+/, '') and str.replace(/[class]+$/, '')
RECURSIVE StripLeft(_, _)
StripLeft(str, class) ==
    IF str # "" /\ SubSeq(str, 1, 1) \in class
    THEN StripLeft(SubSeq(str, 2, Len(str)), class) ELSE str

RECURSIVE StripRight(_, _)
StripRight(str, class) ==
    IF str # "" /\ SubSeq(str, Len(str), Len(str)) \in class
    THEN StripRight(SubSeq(str, 1, Len(str) - 1), class) ELSE str

\* str.replace(/\s+/g, '_')
RECURSIVE SpacesToUnderscore(_)
SpacesToUnderscore(str) ==
    IF str = "" THEN ""
    ELSE IF SubSeq(str, 1, 1) \in SpaceChars
    THEN "_" \o SpacesToUnderscore(StripLeft(str, SpaceChars))
    ELSE SubSeq(str, 1, 1) \o SpacesToUnderscore(SubSeq(str, 2, Len(str)))

\* str.slice(0, n)
Slice(str, n) == SubSeq(str, 1, IF n < Len(str) THEN n ELSE Len(str))

sanitizeFilename(title, maxLength) ==
    LET s1 == Without(title, ReservedChars)
        s2 == SpacesToUnderscore(StripRight(StripLeft(s1, SpaceChars), SpaceChars))
        s3 == Only(s2, NameChars)
        s4 == StripRight(StripLeft(s3, {".", "_"}), {".", "_"})
        safe == IF s4 = "" THEN "untitled" ELSE s4
    IN  Slice(safe, maxLength)

\* createdAt is the ISO-8601 text of the Date: its first four characters are
\* getUTCFullYear(), the sixth and seventh the month number padded to two
resolveOutputPath(conv, mode, baseDir) ==
    LET safeName == sanitizeFilename(conv.title, 100)
        subdir == IF conv.createdAt # NULL
                  THEN IF mode = "monthly" THEN SubSeq(conv.createdAt, 1, 7)
                       ELSE SubSeq(conv.createdAt, 1, 4)
                  ELSE "undated"
    IN  IF mode = "flat" THEN baseDir \o "/" \o safeName \o ".md"
        ELSE baseDir \o "/" \o subdir \o "/" \o safeName \o ".md"

UpperChars == CharsOf(UpperCase)

\* the lower-case letter of an upper-case one
LowerOf(c) ==
    LET at == CHOOSE i \in 1..Len(UpperCase) : SubSeq(UpperCase, i, i) = c
    IN  SubSeq(LowerCase, at, at)

\* character by character, the two halves of the string one after the other
RECURSIVE toLowerCase(_)
toLowerCase(str) ==
    IF str = "" THEN ""
    ELSE IF Len(str) = 1 THEN (IF str \in UpperChars THEN LowerOf(str) ELSE str)
    ELSE toLowerCase(SubSeq(str, 1, Len(str) \div 2))
         \o toLowerCase(SubSeq(str, Len(str) \div 2 + 1, Len(str)))

\* the 0-based position of the first c, -1 when there is none: what
\* deduplicatePath would read with indexOf in place of lastIndexOf
firstIndexOf(str, c) ==
    IF c \notin CharsOf(str) THEN -1
    ELSE (CHOOSE i \in 1..Len(str) :
              SubSeq(str, i, i) = c /\ \A j \in 1..(i - 1) : SubSeq(str, j, j) # c) - 1

\* str.lastIndexOf(c): the 0-based position of the last c, -1 when there is none
lastIndexOf(str, c) ==
    IF c \notin CharsOf(str) THEN -1
    ELSE (CHOOSE i \in 1..Len(str) :
              SubSeq(str, i, i) = c /\ \A j \in (i + 1)..Len(str) : SubSeq(str, j, j) # c) - 1

\* usedPaths.has(key), usedPaths.set(key, count)
Has(used, key) == key \in DOMAIN used

SetKey(used, key, count) == [k \in DOMAIN used \cup {key} |-> IF k = key THEN count ELSE used[k]]

\* what deduplicatePath returns and the map it leaves
deduplicatePath(path, used) ==
    LET key == toLowerCase(path)
    IN  IF Has(used, key)
        THEN LET count == used[key] + 1
                 dotIdx == lastIndexOf(path, ".")
             IN  [path |-> IF dotIdx > 0
                           THEN SubSeq(path, 1, dotIdx) \o "_" \o ToString(count)
                                \o SubSeq(path, dotIdx + 1, Len(path))
                           ELSE path \o "_" \o ToString(count),
                  usedPaths |-> SetKey(used, key, count)]
        ELSE [path |-> path, usedPaths |-> SetKey(used, key, 0)]

DEFAULT_MAX_SIZE == 90000

\* `${base}/_CONVERSATIONS`
ConversationsDir == "claude_migration/_CONVERSATIONS"

\* `for (const part of parts)`: the paths resolved, the paths written and the
\* map after the parts still to write
RECURSIVE WriteParts(_, _, _, _, _)
WriteParts(parts, mode, used, asked, written) ==
    IF parts = << >> THEN [usedPaths |-> used, calls |-> asked, returned |-> written]
    ELSE LET outPath == resolveOutputPath(Head(parts), mode, ConversationsDir)
             unique == deduplicatePath(outPath, used)
         IN  WriteParts(Tail(parts), mode, unique.usedPaths,
                        Append(asked, outPath), Append(written, unique.path))

(***************************************************************************)
(* The inputs of the conversation loop.                                    *)
(***************************************************************************)

\* the most conversations of one download
MaxCalls == 3

SampleModes == {"flat", "monthly", "yearly"}

SamplePathTitles == {"a", "A?", "a 1", "v1.2"}

SelectedConversations ==
    { ConversationOf("c", title, createdAt, NULL,
                     << Message("user", << Fragment("text", "hi") >>, "") >>, {}) :
      title \in SamplePathTitles, createdAt \in {NULL, "2023-11-14T22:13:20.000Z"} }

InitPath ==
    /\ ParseIdle /\ RenderIdle /\ SplitIdle /\ ExtIdle
    /\ organize \in SampleModes
    /\ usedPaths = << >> /\ calls = << >> /\ returned = << >>

\* one iteration of `for (const conv of selected)` for a conversation with
\* messages: every part of it gets its path
WriteConversation ==
    /\ Len(calls) < MaxCalls
    /\ \E conv \in SelectedConversations :
          LET after == WriteParts(maybeSplit(conv, DEFAULT_MAX_SIZE), organize,
                                  usedPaths, calls, returned)
          IN  /\ usedPaths' = after.usedPaths
              /\ calls' = after.calls
              /\ returned' = after.returned
    /\ UNCHANGED <<organize, parseVars, renderVars, splitVars, extVars>>

NextPath == WriteConversation

SpecPath == InitPath /\ [][NextPath]_vars

\* C9: the paths returned under one usedPaths map are pairwise distinct when
\* compared without regard to letter case
C9_PathsDistinct ==
    \A i \in 1..Len(returned) : \A j \in 1..Len(returned) :
        i # j => toLowerCase(returned[i]) # toLowerCase(returned[j])

\* the number of the registration that call i makes of its path, letter case
\* ignored
RegistrationOf(i) ==
    Cardinality({j \in 1..i : toLowerCase(calls[j]) = toLowerCase(calls[i])})

\* a path ending in ".md" with a suffix put immediately before that extension
WithSuffix(path, n) ==
    SubSeq(path, 1, Len(path) - 3) \o "_" \o ToString(n) \o ".md"

\* C10: the first registration of a path returns it unchanged; the k-th
\* (k >= 2) returns the path as passed with _<k-1> put immediately before
\* its final extension
C10_SuffixRule ==
    \A i \in 1..Len(calls) :
        returned[i] = IF RegistrationOf(i) = 1 THEN calls[i]
                      ELSE WithSuffix(calls[i], RegistrationOf(i) - 1)

\* three registrations of one path, two of them differing in letter case
C10_Witness ==
    /\ Len(calls) = 3
    /\ RegistrationOf(3) = 3
    /\ calls[1] # calls[2]
    /\ returned[3] = WithSuffix(calls[3], 2)

-----------------------------------------------------------------------------
(***************************************************************************)
(* clusterer.js: clusterConversations.  An object reference to a           *)
(* conversation of the input array is its 0-based index in that array.     *)
(***************************************************************************)

STOPWORDS ==
    {"a", "about", "above", "after", "again", "against", "all", "am", "an", "and", "any",
     "are", "as", "at", "be", "because", "been", "before", "being", "below", "between",
     "both", "but", "by", "can", "could", "did", "do", "does", "doing", "down", "during",
     "each", "few", "for", "from", "further", "get", "got", "had", "has", "have", "having",
     "he", "her", "here", "hers", "herself", "him", "himself", "his", "how", "i", "if", "in",
     "into", "is", "it", "its", "itself", "just", "know", "let", "like", "make", "me",
     "might", "more", "most", "my", "myself", "no", "nor", "not", "now", "of", "off", "on",
     "once", "only", "or", "other", "our", "ours", "ourselves", "out", "over", "own",
     "please", "same", "she", "should", "so", "some", "such", "than", "that", "the", "their",
     "theirs", "them", "themselves", "then", "there", "these", "they", "this", "those",
     "through", "to", "too", "under", "until", "up", "very", "want", "was", "we", "were",
     "what", "when", "where", "which", "while", "who", "whom", "why", "will", "with",
     "would", "you", "your", "yours", "yourself", "yourselves", "also", "one", "two",
     "three", "use", "used", "using", "way", "well", "new", "need", "try", "thing", "things",
     "really", "much", "many", "even", "still", "going", "something", "anything", "help",
     "thanks", "thank", "sure", "yeah", "yes", "okay", "ok", "right", "good", "great",
     "think", "work", "working", "time", "first", "last", "look", "looking", "give", "take",
     "come", "see", "say", "said", "tell", "told", "ask", "asked", "wanted", "actually",
     "maybe", "probably", "basically", "however", "example", "different", "another"}

\* the entries of TOPIC_TEMPLATES: keyword, label
TopicTemplateEntries ==
    << <<"python", "Your Python Projects">>, <<"javascript", "Your JavaScript Projects">>,
       <<"typescript", "Your TypeScript Projects">>, <<"react", "Your React Development">>,
       <<"java", "Your Java Projects">>, <<"rust", "Your Rust Projects">>,
       <<"golang", "Your Go Projects">>, <<"sql", "Your Database Work">>,
       <<"css", "Your Web Styling">>, <<"html", "Your Web Development">>,
       <<"api", "Your API Design">>, <<"docker", "Your DevOps Work">>,
       <<"aws", "Your Cloud Infrastructure">>, <<"recipe", "Your Cooking & Recipes">>,
       <<"cook", "Your Cooking & Recipes">>, <<"food", "Your Food & Cooking">>,
       <<"travel", "Your Travel Research">>, <<"trip", "Your Travel Plans">>,
       <<"health", "Your Health & Wellness">>, <<"fitness", "Your Fitness Journey">>,
       <<"writing", "Your Writing Projects">>, <<"email", "Your Email & Communication">>,
       <<"resume", "Your Career Development">>, <<"interview", "Your Career Preparation">>,
       <<"math", "Your Math & Calculations">>, <<"data", "Your Data Analysis">>,
       <<"design", "Your Design Work">>, <<"business", "Your Business Ideas">>,
       <<"marketing", "Your Marketing Strategy">>, <<"finance", "Your Financial Planning">>,
       <<"learning", "Your Learning & Education">> >>

TopicKeywords == {TopicTemplateEntries[i][1] : i \in 1..Len(TopicTemplateEntries)}

TopicLabels == {TopicTemplateEntries[i][2] : i \in 1..Len(TopicTemplateEntries)}

\* a value read from an object literal or given as a label: a string, or the
\* function Object that every object literal inherits as its constructor
StringValue(text) == [isString |-> TRUE, text |-> text]

ObjectFunction == [isString |-> FALSE, text |-> "function Object() { [native code] }"]

Undefined == [isString |-> FALSE, text |-> "undefined"]

\* the lower-case property names an empty object literal inherits that a
\* token can spell: obj["constructor"] is the function Object, and an
\* assignment of a string to obj["__proto__"] creates no property
InheritedTokens == {"constructor"}

\* TOPIC_TEMPLATES[keyword]
TOPIC_TEMPLATES(keyword) ==
    IF keyword \in TopicKeywords
    THEN StringValue((CHOOSE e \in {TopicTemplateEntries[i] : i \in 1..Len(TopicTemplateEntries)} :
                          e[1] = keyword)[2])
    ELSE IF keyword \in InheritedTokens THEN ObjectFunction
    ELSE Undefined

\* text.split(/[\s\W]+/): the runs of word characters in order, with an empty
\* piece in front when the text starts with a separator or is empty and an
\* empty piece behind when it ends with one
Split(str) ==
    LET IsWord(i) == SubSeq(str, i, i) \in WordChars
        starts == {i \in 1..Len(str) : IsWord(i) /\ (i = 1 \/ ~IsWord(i - 1))}
        EndOf(i) == CHOOSE j \in i..Len(str) :
                        /\ \A k \in i..j : IsWord(k)
                        /\ (j = Len(str) \/ ~IsWord(j + 1))
        Start(k) == CHOOSE i \in starts : Cardinality({j \in starts : j < i}) = k - 1
    IN  (IF str = "" \/ ~IsWord(1) THEN << "" >> ELSE << >>)
        \o [k \in 1..Cardinality(starts) |-> SubSeq(str, Start(k), EndOf(Start(k)))]
        \o (IF str # "" /\ ~IsWord(Len(str)) THEN << "" >> ELSE << >>)

tokenize(text) ==
    SelectSeq(Split(toLowerCase(text)), LAMBDA t : Len(t) >= 3 /\ t \notin STOPWORDS)

\* a count kept in an object literal: a number, or the string that `+` makes
\* of the inherited function and a number
Count(n) == [isNumber |-> TRUE, n |-> n]

NotANumber == [isNumber |-> FALSE, n |-> 0]

RECURSIVE Flatten(_)
Flatten(seqs) == IF seqs = << >> THEN << >> ELSE Head(seqs) \o Flatten(Tail(seqs))

\* obj[term] = (obj[term] || 0) + k for every token in turn, on the entries
\* of obj in insertion order: an entry gains k for each occurrence of its
\* term, a count that is a string stays one, and the terms obj does not have
\* yet are appended in the order of their first occurrence
BumpAll(entries, tokens, k) ==
    LET Occurrences(term) == Cardinality({i \in 1..Len(tokens) : tokens[i] = term})
        known == {entries[i].term : i \in 1..Len(entries)}
        firsts == SelectSeq([i \in 1..Len(tokens) |-> i],
                            LAMBDA i : /\ tokens[i] \notin known \cup {"__proto__"}
                                       /\ \A j \in 1..(i - 1) : tokens[j] # tokens[i])
    IN  [i \in 1..Len(entries) |->
            IF Occurrences(entries[i].term) = 0 THEN entries[i]
            ELSE [entries[i] EXCEPT !.count =
                     IF entries[i].count.isNumber
                     THEN Count(entries[i].count.n + k * Occurrences(entries[i].term))
                     ELSE NotANumber]]
        \o [p \in 1..Len(firsts) |->
               [term |-> tokens[firsts[p]],
                count |-> IF tokens[firsts[p]] \in InheritedTokens THEN NotANumber
                          ELSE Count(k * Occurrences(tokens[firsts[p]]))]]

\* msg.contentParts.map(p => p.text || '').join(' ').slice(0, 500)
MessageText(msg) ==
    Slice(Join([i \in 1..Len(msg.contentParts) |-> msg.contentParts[i].text], " "), 500)

\* the {term, count} entries, in the order of Object.entries(termCounts):
\* the title tokens count 3 each, the tokens of the user messages 1 each
extractKeywords(conv) ==
    LET userMessages == SelectSeq(conv.messages, LAMBDA msg : msg.authorRole = "user")
        userTokens == Flatten([i \in 1..Len(userMessages) |->
                                  tokenize(MessageText(userMessages[i]))])
    IN  BumpAll(BumpAll(<< >>, tokenize(conv.title), 3), userTokens, 1)


\* df after the loop over convKeywords, as the entries of the object literal;
\* the terms of one conversation are the keys of an object, each there once
DocumentFrequency(df, convKeywords) ==
    LET Terms(keywords) == [i \in 1..Len(keywords) |-> keywords[i].term]
    IN  BumpAll(df, Flatten([c \in 1..Len(convKeywords) |-> Terms(convKeywords[c])]), 1)

\* df[term] || 1
FrequencyOf(df, term) ==
    IF \E i \in 1..Len(df) : df[i].term = term
    THEN (CHOOSE e \in {df[i] : i \in 1..Len(df)} : e.term = term).count
    ELSE Count(1)

RECURSIVE Pow(_, _)
Pow(base, exponent) == IF exponent = 0 THEN 1 ELSE base * Pow(base, exponent - 1)

\* count * Math.log(docCount / df), kept as its three numbers; NaN when the
\* count or the frequency is a string
Tfidf(term, count, frequency, docCount) ==
    [term |-> term, isNumber |-> count.isNumber /\ frequency.isNumber,
     c |-> count.n, d |-> frequency.n, docCount |-> docCount]

\* a.tfidf > b.tfidf for two numbers: c * ln(N / d) grows as (N / d)^c does
GreaterTfidf(a, b) ==
    /\ a.isNumber /\ b.isNumber
    /\ Pow(a.docCount, a.c) * Pow(b.d, b.c) > Pow(b.docCount, b.c) * Pow(a.d, a.c)

\* a.count > b.count for two numbers
GreaterCount(a, b) == a.isNumber /\ b.isNumber /\ a.c > b.c

\* Array.prototype.sort with a comparator (a, b) => b.key - a.key that is
\* consistent: descending, equal keys in their order in seq
SortDescending(seq, Greater(_, _)) ==
    LET Before(i, j) == Greater(seq[i], seq[j]) \/ (~Greater(seq[j], seq[i]) /\ i < j)
        Rank(i) == Cardinality({j \in 1..Len(seq) : Before(j, i)})
    IN  [k \in 1..Len(seq) |-> seq[CHOOSE i \in 1..Len(seq) : Rank(i) = k - 1]]

InsertAt(seq, at, elem) == SubSeq(seq, 1, at - 1) \o << elem >> \o SubSeq(seq, at, Len(seq))

\* The arrays sort can leave.  With numbers only the comparator is consistent
\* and the order is the one above.  A key that is NaN makes every comparison
\* with it NaN, read as +0: when the numbers differ the comparator is no
\* longer consistent and the order is implementation-defined; the entry with
\* the NaN key may then stand anywhere among the others.
SortOutcomes(seq, Greater(_, _)) ==
    LET numbers == SelectSeq(seq, LAMBDA e : e.isNumber)
        others == SelectSeq(seq, LAMBDA e : ~e.isNumber)
        sorted == SortDescending(numbers, Greater)
    IN  IF others = << >> THEN {sorted}
        ELSE IF \A i, j \in 1..Len(numbers) : ~Greater(numbers[i], numbers[j]) THEN {seq}
        ELSE {InsertAt(sorted, at, others[1]) : at \in 1..(Len(sorted) + 1)}

TermsOf(entries) == [i \in 1..Len(entries) |-> entries[i].term]

\* the Sets topKeywords can hold for one conversation, each as the sequence
\* of its terms in insertion order
TopKeywordOutcomes(keywords, df, docCount) ==
    LET scored == [i \in 1..Len(keywords) |->
                      Tfidf(keywords[i].term, keywords[i].count,
                            FrequencyOf(df, keywords[i].term), docCount)]
    IN  {TermsOf(SubSeq(sorted, 1, IF Len(sorted) < 20 THEN Len(sorted) ELSE 20)) :
             sorted \in SortOutcomes(scored, GreaterTfidf)}

\* the sequences that take element i from the set choices[i]
RECURSIVE Product(_)
Product(choices) ==
    IF choices = << >> THEN {<< >>}
    ELSE {<< h >> \o t : h \in Head(choices), t \in Product(Tail(choices))}

\* steps 1 to 3 of clusterConversations
TopKeywordsOf(convs) ==
    LET convKeywords == [i \in 1..Len(convs) |-> extractKeywords(convs[i])]
        df == DocumentFrequency(<< >>, convKeywords)
    IN  Product([i \in 1..Len(convs) |-> TopKeywordOutcomes(convKeywords[i], df, Len(convs))])

\* a similarity that forgets the overlap in the union
jaccardOfSizes(setA, setB) ==
    LET intersection == Cardinality(Range(setA) \cap Range(setB))
        union == Len(setA) + Len(setB)
    IN  IF union = 0 THEN [num |-> 0, den |-> 1] ELSE [num |-> intersection, den |-> union]

\* jaccardSimilarity, as the fraction it divides out
jaccardSimilarity(setA, setB) ==
    LET intersection == Cardinality(Range(setA) \cap Range(setB))
        union == Len(setA) + Len(setB) - intersection
    IN  IF union = 0 THEN [num |-> 0, den |-> 1] ELSE [num |-> intersection, den |-> union]

GreaterSim(a, b) == a.num * b.den > b.num * a.den

\* SIMILARITY_THRESHOLD = 0.15, the double that 3 / 20 divides out to
SIMILARITY_THRESHOLD == [num |-> 3, den |-> 20]

MIN_CLUSTER_SIZE == 2

ZeroSim == [num |-> 0, den |-> 1]

\* the greatest element of a non-empty set of similarities
MaxSim(sims) == CHOOSE s \in sims : \A t \in sims : ~GreaterSim(t, s)

\* indices are 0-based, topKw is the 1-based sequence
maxPairwiseSimilarity(indicesA, indicesB, topKw) ==
    MaxSim({ZeroSim} \cup {jaccardSimilarity(topKw[indicesA[a] + 1], topKw[indicesB[b] + 1]) :
                              a \in 1..Len(indicesA), b \in 1..Len(indicesB)})

\* the search of one round of `while (true)`: bestSim, bestI, bestJ (0-based)
BestPair(cl, topKw) ==
    LET pairs == {p \in (1..Len(cl)) \X (1..Len(cl)) : p[1] < p[2]}
        Sim(p) == maxPairwiseSimilarity(cl[p[1]], cl[p[2]], topKw)
        positive == {p \in pairs : GreaterSim(Sim(p), ZeroSim)}
        Earlier(p, q) == p[1] < q[1] \/ (p[1] = q[1] /\ p[2] < q[2])
    IN  IF positive = {} THEN [bestSim |-> ZeroSim, bestI |-> -1, bestJ |-> -1]
        ELSE LET best == CHOOSE p \in positive :
                             \A q \in positive \ {p} :
                                 \/ GreaterSim(Sim(p), Sim(q))
                                 \/ (~GreaterSim(Sim(q), Sim(p)) /\ Earlier(p, q))
             IN  [bestSim |-> Sim(best), bestI |-> best[1] - 1, bestJ |-> best[2] - 1]

\* a loop that breaks only when no pair has a positive similarity
BreaksWithoutPair(best) == best.bestI = -1

\* `if (bestSim < SIMILARITY_THRESHOLD || bestI === -1) break`
LoopBreaks(best) == GreaterSim(SIMILARITY_THRESHOLD, best.bestSim) \/ best.bestI = -1

\* clusters[bestI].indices.push(...clusters[bestJ].indices); clusters.splice(bestJ, 1)
Merged(cl, best) ==
    LET joined == [cl EXCEPT ![best.bestI + 1] = cl[best.bestI + 1] \o cl[best.bestJ + 1]]
    IN  SubSeq(joined, 1, best.bestJ) \o SubSeq(joined, best.bestJ + 2, Len(joined))

\* an end of agglomerativeCluster that keeps the first of the singles only
FirstSingleKept(cl) ==
    LET realClusters == SelectSeq(cl, LAMBDA c : Len(c) >= MIN_CLUSTER_SIZE)
        singles == SelectSeq(cl, LAMBDA c : Len(c) < MIN_CLUSTER_SIZE)
    IN  IF Len(singles) > 0 THEN Append(realClusters, singles[1]) ELSE realClusters

\* an end of agglomerativeCluster that pools the singles in the first call
\* only, by a flag the module keeps between calls
PooledOnce(cl) ==
    LET realClusters == SelectSeq(cl, LAMBDA c : Len(c) >= MIN_CLUSTER_SIZE)
        singles == SelectSeq(cl, LAMBDA c : Len(c) < MIN_CLUSTER_SIZE)
    IN  IF firstRun.ran THEN FirstSingleKept(cl)
        ELSE IF Len(singles) > 0 THEN Append(realClusters, Flatten(singles)) ELSE realClusters

\* the end of agglomerativeCluster: real clusters, then the singles as one
Pooled(cl) ==
    LET realClusters == SelectSeq(cl, LAMBDA c : Len(c) >= MIN_CLUSTER_SIZE)
        singles == SelectSeq(cl, LAMBDA c : Len(c) < MIN_CLUSTER_SIZE)
    IN  IF Len(singles) > 0 THEN Append(realClusters, Flatten(singles)) ELSE realClusters


\* the arrays getClusterKeywords can return
ClusterKeywordOutcomes(indices, topKw) ==
    LET counts == BumpAll(<< >>, Flatten([i \in 1..Len(indices) |-> topKw[indices[i] + 1]]), 1)
        entries == [i \in 1..Len(counts) |->
                       [term |-> counts[i].term, isNumber |-> counts[i].count.isNumber,
                        c |-> counts[i].count.n]]
    IN  {TermsOf(sorted) : sorted \in SortOutcomes(entries, GreaterCount)}

\* the upper-case letter of a lower-case one, any other character unchanged
UpperOf(c) ==
    IF c \in CharsOf(LowerCase)
    THEN LET at == CHOOSE i \in 1..Len(LowerCase) : SubSeq(LowerCase, i, i) = c
         IN  SubSeq(UpperCase, at, at)
    ELSE c

\* word.charAt(0).toUpperCase() + word.slice(1)
Capitalized(word) == UpperOf(SubSeq(word, 1, 1)) \o SubSeq(word, 2, Len(word))

\* whether `if (value)` takes the value for true
Truthy(value) == value # Undefined /\ value # StringValue("")

generateLabel(keywords) ==
    LET matching == SelectSeq(keywords, LAMBDA keyword : Truthy(TOPIC_TEMPLATES(keyword)))
    IN  IF matching # << >> THEN TOPIC_TEMPLATES(matching[1])
        ELSE IF Len(keywords) > 0 THEN StringValue("Topic: " \o Capitalized(keywords[1]))
        ELSE StringValue("General")

\* a returned cluster
Cluster(label, members, keywords) ==
    [label |-> label, conversations |-> members, keywords |-> keywords]

(***************************************************************************)
(* The inputs of clusterConversations.  No text of them holds a token made *)
(* of digits only, and "constructor" is the only token of the text it is   *)
(* in.                                                                     *)
(***************************************************************************)

\* the longest conversations array
MaxConvs == 3

Titled(title, msgs) == ConversationOf("c", title, NULL, NULL, msgs, {})

UserSays(text) == Message("user", << Fragment("text", text) >>, "")

ClusterSamples ==
    { Titled("Python script",
             << UserSays("Please help with my script"),
                Message("assistant", << Fragment("text", "Here is the banana") >>, "gpt-4") >>),
      Titled("Constructor", << >>),
      Titled("Hi", << UserSays("ok") >>),
      Titled("Garden soil compost mulch", << >>),
      Titled("Garden tools shed fence", << >>),
      Titled("alpha beta gamma",
             << UserSays("delta epsilon zeta theta iota kappa lambda sigma") >>),
      Titled("Alpha, beta: gamma?",
             << UserSays("omega omicron upsilon digamma koppa sampi stigma heta sho") >>) }

ClusterInputs == SeqUpTo(ClusterSamples, MaxConvs)

InitCluster ==
    /\ ParseIdle /\ RenderIdle /\ SplitIdle /\ PathIdle /\ LateIdle
    /\ clusterInput \in ClusterInputs
    /\ topKeywords = << >> /\ clusters = << >> /\ labelled = << >>

AllIndices == [i \in 1..Len(clusterInput) |-> i - 1]

\* clusterConversations up to the first round of the loop of
\* agglomerativeCluster, or to its return when there are fewer than 2
StartClustering ==
    /\ pc = "idle"
    /\ IF Len(clusterInput) < 2
       THEN /\ labelled' = << Cluster(StringValue("All Conversations"), AllIndices, << >>) >>
            /\ pc' = "done"
            /\ UNCHANGED <<topKeywords, clusters>>
       ELSE /\ topKeywords' \in TopKeywordsOf(clusterInput)
            /\ clusters' = [i \in 1..Len(clusterInput) |-> << i - 1 >>]
            /\ pc' = "merge"
            /\ UNCHANGED labelled
    /\ UNCHANGED <<rawData, metadataOnly, idx, results, thrown, leafId, currentId, messages,
                   turn, renderVars, splitVars, pathVars, lateVars, clusterInput>>

\* a round of `while (true)` that merges
MergeClusters ==
    /\ pc = "merge"
    /\ ~LoopBreaks(BestPair(clusters, topKeywords))
    /\ clusters' = Merged(clusters, BestPair(clusters, topKeywords))
    /\ UNCHANGED <<parseVars, renderVars, splitVars, pathVars, lateVars, clusterInput, topKeywords,
                   labelled>>

\* the round that breaks, and the rest of agglomerativeCluster
PoolSingles ==
    /\ pc = "merge"
    /\ LoopBreaks(BestPair(clusters, topKeywords))
    /\ clusters' = Pooled(clusters)
    /\ pc' = "label"
    /\ UNCHANGED <<rawData, metadataOnly, idx, results, thrown, leafId, currentId, messages,
                   turn, renderVars, splitVars, pathVars, lateVars, clusterInput, topKeywords, labelled>>

\* one call of the callback of clusters.map, and the return after the last
LabelCluster ==
    /\ pc = "label"
    /\ \E keywords \in ClusterKeywordOutcomes(clusters[Len(labelled) + 1], topKeywords) :
          labelled' = Append(labelled,
                             Cluster(generateLabel(keywords), clusters[Len(labelled) + 1],
                                     SubSeq(keywords, 1,
                                            IF Len(keywords) < 10 THEN Len(keywords) ELSE 10)))
    /\ pc' = IF Len(labelled) + 1 = Len(clusters) THEN "done" ELSE "label"
    /\ UNCHANGED <<rawData, metadataOnly, idx, results, thrown, leafId, currentId, messages,
                   turn, renderVars, splitVars, pathVars, lateVars, clusterInput, topKeywords, clusters>>

NextCluster == StartClustering \/ MergeClusters \/ PoolSingles \/ LabelCluster

SpecCluster == InitCluster /\ [][NextCluster]_vars

\* clusterConversations is a synchronous function: once called it runs until
\* it returns.  This is WF_vars(NextCluster) with ENABLED <<NextCluster>>_vars
\* written as pc # "done", the states in which a step of the function is left.
SpecClusterFair == SpecCluster /\ ([]<>(pc = "done") \/ []<><<NextCluster>>_vars)


(***************************************************************************)
(* Properties of clusterConversations.                                     *)
(***************************************************************************)

\* the members of the returned clusters, one after the other
MembersOf(out) == Flatten([i \in 1..Len(out) |-> out[i].conversations])

\* every input conversation is a member of exactly one returned cluster and
\* every member is an input conversation
EachInExactlyOne ==
    /\ Range(MembersOf(labelled)) = Range(AllIndices)
    /\ Len(MembersOf(labelled)) = Len(clusterInput)

NoEmptyCluster == \A i \in 1..Len(labelled) : labelled[i].conversations # << >>

\* C11 (as amended): the returned clusters hold every input conversation
\* exactly once and nothing else, for every N >= 0, and for N >= 1 no
\* returned cluster is without members
C11_Partition ==
    pc = "done" => /\ EachInExactlyOne
                   /\ Len(clusterInput) >= 1 => NoEmptyCluster

\* C11 as stated: for every N >= 0 no returned cluster is without members
C11_PartitionNoEmptyCluster ==
    pc = "done" => EachInExactlyOne /\ NoEmptyCluster

\* three conversations returned as a merged cluster of two and a residual
\* cluster of one
C11_Witness ==
    /\ pc = "done"
    /\ Len(clusterInput) = 3
    /\ Len(labelled) = 2
    /\ Len(labelled[1].conversations) = 2
    /\ Len(labelled[2].conversations) = 1


\* conversations i and j (0-based) have top-keyword sets of Jaccard
\* similarity >= 0.15
SimilarPair(i, j) ==
    ~GreaterSim(SIMILARITY_THRESHOLD,
                jaccardSimilarity(topKeywords[i + 1], topKeywords[j + 1]))

\* the members reached from `from` over pairs of similarity >= 0.15
RECURSIVE Reached(_, _)
Reached(from, members) ==
    LET more == from \cup {m \in members : \E f \in from : SimilarPair(f, m)}
    IN  IF more = from THEN from ELSE Reached(more, members)

\* the members are linked by a chain of pairs of similarity >= 0.15
Connected(members) ==
    /\ members # {}
    /\ Reached({CHOOSE m \in members : TRUE}, members) = members

\* no two of the members have similarity >= 0.15
NoSimilarPair(members) == \A i, j \in members : i # j => ~SimilarPair(i, j)

SameCluster(i, j) ==
    \E c \in 1..Len(labelled) : {i, j} \subseteq Range(labelled[c].conversations)

\* in the loop every cluster is a chain of pairs at or above the threshold;
\* on return two conversations at or above it share a cluster, and every
\* cluster is such a chain, except the residual one, which comes last and
\* holds no such pair
ThresholdRule ==
    /\ pc = "merge" => \A c \in 1..Len(clusters) : Connected(Range(clusters[c]))
    /\ (pc = "done" /\ Len(clusterInput) >= 2) =>
           /\ \A i, j \in Range(AllIndices) : (i # j /\ SimilarPair(i, j)) => SameCluster(i, j)
           /\ \A c \in 1..Len(labelled) :
                  \/ /\ Len(labelled[c].conversations) >= MIN_CLUSTER_SIZE
                     /\ Connected(Range(labelled[c].conversations))
                  \/ /\ c = Len(labelled)
                     /\ NoSimilarPair(Range(labelled[c].conversations))

\* C12: the agglomerative loop terminates; no merge is made below the
\* threshold 0.15, and on return (N >= 2) every pair of conversations at or
\* above it is in one cluster and every merged cluster is a chain of such pairs
C12_ThresholdRule == []ThresholdRule /\ <>(pc = "done")

\* three conversations, two of them merged at a similarity of exactly 3/20
\* and the third left to the residual cluster
C12_Witness ==
    /\ pc = "done"
    /\ Len(clusterInput) = 3
    /\ Len(labelled) = 2
    /\ Len(labelled[1].conversations) = 2
    /\ jaccardSimilarity(topKeywords[labelled[1].conversations[1] + 1],
                         topKeywords[labelled[1].conversations[2] + 1]) = SIMILARITY_THRESHOLD
    /\ Len(labelled[2].conversations) = 1
    /\ ~SimilarPair(labelled[2].conversations[1], labelled[1].conversations[1])


\* the conversations the loop leaves in clusters of fewer than 2 members:
\* those that reach the threshold with no other conversation
Isolated ==
    {i \in Range(AllIndices) : \A j \in Range(AllIndices) \ {i} : ~SimilarPair(i, j)}

\* the last returned cluster
Residual == labelled[Len(labelled)]

\* one cluster, the last, holds the isolated conversations and nothing else
ResidualPooled ==
    /\ Range(Residual.conversations) = Isolated
    /\ Len(Residual.conversations) = Cardinality(Isolated)
    /\ \A c \in 1..(Len(labelled) - 1) : Range(labelled[c].conversations) \cap Isolated = {}

\* C13: when clustering N >= 2 conversations leaves clusters of fewer than 2
\* members, one residual cluster holds all of them, it comes after the merged
\* clusters, and its label is "General"
C13_ResidualGeneral ==
    (pc = "done" /\ Len(clusterInput) >= 2 /\ Isolated # {}) =>
        /\ ResidualPooled
        /\ Residual.label = StringValue("General")

\* the part of C13 that the pooling of agglomerativeCluster gives
ResidualIsPooled ==
    (pc = "done" /\ Len(clusterInput) >= 2 /\ Isolated # {}) => ResidualPooled


\* the terms of the top keywords of the members
TermsOfMembers(members) == UNION {Range(topKeywords[m + 1]) : m \in Range(members)}

\* the number of members that have the term among their top keywords
MembershipFrequency(term, members) ==
    Cardinality({m \in Range(members) : term \in Range(topKeywords[m + 1])})

\* the terms of `among` that no term of `among` exceeds in frequency
MostFrequent(among, members) ==
    {t \in among : \A u \in among :
                       MembershipFrequency(u, members) <= MembershipFrequency(t, members)}

\* the labels of the three forms: the template label of the first keyword, in
\* descending order of frequency, that is an entry of the dictionary; else
\* "Topic: " and the capitalized first keyword; else "General"
LabelsOfTheForms(members) ==
    LET terms == TermsOfMembers(members)
        entries == terms \cap TopicKeywords
    IN  IF entries # {}
        THEN {TOPIC_TEMPLATES(t) : t \in MostFrequent(entries, members)}
        ELSE IF terms # {}
        THEN {StringValue("Topic: " \o Capitalized(t)) : t \in MostFrequent(terms, members)}
        ELSE {StringValue("General")}

LabelRule(cluster) ==
    /\ cluster.label.isString
    /\ cluster.label \in LabelsOfTheForms(cluster.conversations)
    /\ Len(cluster.keywords) <= 10

\* C14: every cluster returned for N >= 2 conversations has a label that is
\* a string of one of the three forms, and at most 10 keywords
C14_LabelForms ==
    (pc = "done" /\ Len(clusterInput) >= 2) =>
        \A c \in 1..Len(labelled) : LabelRule(labelled[c])

\* the rule for the clusters none of whose keywords is a key that object
\* literals inherit
LabelFormsOfOwnKeys ==
    (pc = "done" /\ Len(clusterInput) >= 2) =>
        \A c \in 1..Len(labelled) :
            TermsOfMembers(labelled[c].conversations) \cap InheritedTokens = {}
                => LabelRule(labelled[c])


(***************************************************************************)
(* The session after processing (app.js, in byok/api-client.js): the       *)
(* knowledge summaries of summarizeClusters (knowledge-summarizer.js),     *)
(* their enhancement (llm-synthesizer.js, in byok/api-client.js) and the   *)
(* knowledge-base files of convertAndDownload.                             *)
(***************************************************************************)

\* str.replace(/^your\s+/i, '') of a lower-cased string
StripYour(str) ==
    IF Len(str) >= 5 /\ SubSeq(str, 1, 4) = "your" /\ SubSeq(str, 5, 5) \in SpaceChars
    THEN StripLeft(SubSeq(str, 5, Len(str)), SpaceChars)
    ELSE str

\* str.replace(/_+/g, '_')
RECURSIVE CollapseUnderscores(_)
CollapseUnderscores(str) ==
    IF str = "" THEN ""
    ELSE IF SubSeq(str, 1, 1) = "_"
    THEN "_" \o CollapseUnderscores(StripLeft(str, {"_"}))
    ELSE SubSeq(str, 1, 1) \o CollapseUnderscores(SubSeq(str, 2, Len(str)))

\* str.replace(/^_|_$/g, '')
TrimOneUnderscore(str) ==
    LET front == IF str # "" /\ SubSeq(str, 1, 1) = "_" THEN SubSeq(str, 2, Len(str)) ELSE str
    IN  IF front # "" /\ SubSeq(front, Len(front), Len(front)) = "_"
        THEN SubSeq(front, 1, Len(front) - 1) ELSE front

\* sanitize of llm-synthesizer.js
sanitize(name) ==
    LET cut == Slice(TrimOneUnderscore(CollapseUnderscores(
                   SpacesToUnderscore(Without(name, ReservedChars)))), 100)
    IN  IF cut = "" THEN "untitled" ELSE cut

\* the filename summarizeClusters gives a label
SummaryFilename(label) ==
    "topic_" \o sanitizeFilename(StripYour(toLowerCase(label)), 100) \o ".md"

\* the filename enhanceKnowledge gives a label
EnhancedFilename(label) == "topic_" \o sanitize(StripYour(toLowerCase(label))) \o ".md"

\* getNotableConversations
getNotableConversations(cluster) ==
    LET withMessages == SelectSeq(cluster.conversations, LAMBDA c : Len(c.messages) > 0)
        Longer(a, b) == Len(a.messages) > Len(b.messages)
    IN  SortDescending(withMessages, Longer)

\* generateClusterSummary of a cluster whose conversations have no createdAt
\* and no user message: no date range, no topics, no decisions
generateClusterSummary(cluster) ==
    LET notable == Slice(getNotableConversations(cluster), 8)
        entries == [i \in 1..Len(notable) |->
                       "- **" \o notable[i].title \o "** (Unknown date) -- "
                           \o ToString(Len(notable[i].messages)) \o " messages"]
    IN  Join(<< "# " \o cluster.label.text, "" >>
                 \o (IF Len(notable) > 0
                     THEN << "## Notable Conversations" >> \o entries \o << "" >>
                     ELSE << >>),
             "\n")

Summary(title, filename, markdown) ==
    [title |-> title, filename |-> filename, markdown |-> markdown]

summarizeClusters(cl) ==
    [i \in 1..Len(cl) |->
        Summary(cl[i].label.text, SummaryFilename(cl[i].label.text),
                generateClusterSummary(cl[i]))]

\* zip.file(path, content): a new file, or new content for the file of that name
ZipFile(files, path, content) ==
    IF \E i \in 1..Len(files) : files[i].path = path
    THEN [i \in 1..Len(files) |->
             IF files[i].path = path THEN [path |-> path, content |-> content] ELSE files[i]]
    ELSE Append(files, [path |-> path, content |-> content])

ZipBase == "claude_migration"

\* the loop over knowledgeSummaries of convertAndDownload
RECURSIVE ZipKnowledge(_, _)
ZipKnowledge(files, summaries) ==
    IF summaries = << >> THEN files
    ELSE ZipKnowledge(ZipFile(files, ZipBase \o "/_KNOWLEDGE_BASE/" \o Head(summaries).filename,
                              Head(summaries).markdown),
                      Tail(summaries))

\* the longest clusters array of the session
MaxClusters == 3

Answer(text) == Message("assistant", << Fragment("text", text) >>, "gpt-4")

\* clusters as clusterConversations returns them: string labels, conversations
\* without createdAt whose messages are the assistant's
KbSamples ==
    { Cluster(StringValue("Your Cooking & Recipes"),
              << Titled("Recipe pasta", << Answer("boil") >>),
                 Titled("Recipe pasta sauce", << Answer("stir"), Answer("salt") >>) >>,
              << "recipe", "pasta", "sauce" >>),
      Cluster(StringValue("Your Cooking & Recipes"),
              << Titled("Cook stew", << Answer("simmer") >>), Titled("Cook stew", << >>) >>,
              << "cook", "stew" >>),
      Cluster(StringValue("Your Food & Cooking"),
              << Titled("Food", << >>), Titled("Food", << >>) >>, << "food" >>),
      Cluster(StringValue("Topic: Alpha"),
              << Titled("alpha beta", << Answer("gamma") >>),
                 Titled("alpha, beta", << Answer("delta") >>) >>,
              << "alpha", "beta" >>),
      Cluster(StringValue("General"), << Titled("Hi", << Answer("hello") >>) >>, << >>) }

\* arrays of distinct clusters; clusterConversations returns one at least
KbInputs ==
    {cl \in SeqUpTo(KbSamples, MaxClusters) :
        /\ Len(cl) >= 1
        /\ \A i, j \in 1..Len(cl) : i # j => cl[i] # cl[j]}

\* the profile document profileToMarkdown gives
HeuristicProfile == "# Your Profile"

InitSession == ParseIdle /\ RenderIdle /\ SplitIdle /\ PathIdle /\ ClusterIdle /\ LateIdle

\* the end of processing: clusters, profileMarkdown and knowledgeSummaries are
\* set and the preview is shown
ShowPreview ==
    /\ pc = "idle"
    /\ \E cl \in KbInputs :
          /\ kbClusters' = cl
          /\ knowledgeSummaries' = summarizeClusters(cl)
    /\ profileMarkdown' = HeuristicProfile
    /\ pc' = "preview"
    /\ UNCHANGED <<besideKnow, zipFiles, sent, enhResults, enhStatus>>

\* convertAndDownload up to the conversations: the profile document and the
\* knowledge base
ConvertAndDownload ==
    /\ pc = "preview"
    /\ zipFiles' = ZipKnowledge(ZipFile(<< >>, ZipBase \o "/_CLAUDE_PROFILE.md", profileMarkdown),
                                knowledgeSummaries)
    /\ pc' = "zipped"
    /\ UNCHANGED <<besideKnow, kbClusters, profileMarkdown, knowledgeSummaries, sent,
                   enhResults, enhStatus>>

\* what a call of sendMessage does: it returns the text of the reply, which
\* is not empty, or throws an Error with the reason
Returns(text) == [ok |-> TRUE, text |-> text]
Throws(reason) == [ok |-> FALSE, text |-> reason]

ProfileOutcomes == {Returns("# Enhanced profile"), Returns(" "), Throws("Claude API error: 500")}

ClusterOutcomes == {Returns("# Notes"), Returns("# Findings"), Throws("Failed to fetch")}

\* a call for the profile (cluster 0) or for cluster i of clusters (1-based)
Call(cluster, outcome) == [cluster |-> cluster, outcome |-> outcome]

\* a fallback document that does not state the reason
HeadingOnly(label, reason) == "# " \o label \o "\n"

\* the document of the catch of enhanceKnowledge
FallbackDocument(label, reason) ==
    "# " \o label \o "\n\n> AI enhancement failed for this cluster: " \o reason \o "\n"

\* the entry one round of the loop of enhanceKnowledge pushes
EnhancedSummary(cluster, outcome) ==
    Summary(cluster.label.text, EnhancedFilename(cluster.label.text),
            IF outcome.ok THEN outcome.text
            ELSE FallbackDocument(cluster.label.text, outcome.text))

\* Math.round((i / n) * 100)
RoundPercent(i, n) == (200 * i + n) \div (2 * n)

\* str.trim() is not empty
NotBlank(str) == StripLeft(str, SpaceChars) # ""

\* handleEnhance up to its first await, the call of sendMessage in
\* enhanceProfile; the session is enhanced once
HandleEnhance ==
    /\ pc = "preview"
    /\ sent = << >>
    /\ enhStatus' = "Enhancing profile... 30%"
    /\ pc' = "enhanceProfile"
    /\ UNCHANGED <<besideKnow, kbClusters, profileMarkdown, knowledgeSummaries, zipFiles, sent,
                   enhResults>>

\* the call of enhanceProfile settles: handleEnhance goes on to the first
\* call of enhanceKnowledge, or to its catch and its end
ProfileSettles ==
    /\ pc = "enhanceProfile"
    /\ \E outcome \in ProfileOutcomes :
          /\ sent' = Append(sent, Call(0, outcome))
          /\ IF outcome.ok
             THEN /\ profileMarkdown' = IF NotBlank(outcome.text) THEN outcome.text
                                        ELSE profileMarkdown
                  /\ enhStatus' = "Enhancing knowledge... 0%"
                  /\ pc' = "enhanceKnowledge"
             ELSE /\ enhStatus' = "Enhancement failed: " \o outcome.text
                  /\ pc' = "preview"
                  /\ UNCHANGED profileMarkdown
    /\ enhResults' = << >>
    /\ UNCHANGED <<besideKnow, kbClusters, knowledgeSummaries, zipFiles>>

\* a call of sendMessage in the loop of enhanceKnowledge settles: the entry
\* is pushed and the next round calls, or enhanceKnowledge returns and
\* handleEnhance ends
ClusterSettles ==
    /\ pc = "enhanceKnowledge"
    /\ \E outcome \in ClusterOutcomes :
          LET i == Len(enhResults) + 1
              pushed == Append(enhResults, EnhancedSummary(kbClusters[i], outcome))
          IN  /\ sent' = Append(sent, Call(i, outcome))
              /\ enhResults' = pushed
              /\ IF i < Len(kbClusters)
                 THEN /\ enhStatus' = "Enhancing knowledge... "
                                          \o ToString(RoundPercent(i, Len(kbClusters))) \o "%"
                      /\ UNCHANGED <<pc, knowledgeSummaries>>
                 ELSE /\ knowledgeSummaries' = IF Len(pushed) > 0 THEN pushed
                                               ELSE knowledgeSummaries
                      /\ enhStatus' = "Enhancement complete!"
                      /\ pc' = "preview"
    /\ UNCHANGED <<besideKnow, kbClusters, profileMarkdown, zipFiles>>

NextSession ==
    ShowPreview \/ HandleEnhance \/ ProfileSettles \/ ClusterSettles \/ ConvertAndDownload

SpecSession == InitSession /\ [][NextSession]_vars

\* the knowledge-base files of the zip
KnowledgeFiles ==
    SelectSeq(zipFiles, LAMBDA f : Len(f.path) > Len(ZipBase) + 17
                                   /\ SubSeq(f.path, 1, Len(ZipBase) + 17)
                                          = ZipBase \o "/_KNOWLEDGE_BASE/")

\* C15: distinct clusters are given distinct filenames, and the zip holds one
\* knowledge-base file per cluster, each with the document of its cluster
C15_OneFilePerCluster ==
    /\ pc \in {"preview", "zipped"} =>
           /\ Len(knowledgeSummaries) = Len(kbClusters)
           /\ \A i, j \in 1..Len(knowledgeSummaries) :
                  i # j => knowledgeSummaries[i].filename # knowledgeSummaries[j].filename
    /\ pc = "zipped" =>
           /\ Len(KnowledgeFiles) = Len(kbClusters)
           /\ \A i \in 1..Len(knowledgeSummaries) :
                  \E f \in Range(KnowledgeFiles) : f.content = knowledgeSummaries[i].markdown


\* the calls of sendMessage made for clusters, in order
ClusterCalls == SelectSeq(sent, LAMBDA call : call.cluster # 0)

\* handleEnhance has run and ended
EnhanceEnded == pc \in {"preview", "zipped"} /\ sent # << >>

\* enhanceKnowledge has resolved
KnowledgeEnhanced == EnhanceEnded /\ enhStatus = "Enhancement complete!"

\* entry i of results is the document of cluster i: the Markdown its call
\* returned, or the fallback document with the reason its call failed for
DocumentOfItsCall(i) ==
    LET call == ClusterCalls[i]
        label == kbClusters[i].label.text
    IN  /\ call.cluster = i
        /\ enhResults[i].title = label
        /\ enhResults[i].markdown =
               IF call.outcome.ok THEN call.outcome.text
               ELSE "# " \o label \o "\n\n> AI enhancement failed for this cluster: "
                        \o call.outcome.text \o "\n"

\* C19: whichever calls fail, enhanceKnowledge goes through every cluster once
\* and in order, and resolves with one document per cluster: the returned
\* Markdown for a call that succeeded, the fallback document with the reason
\* for a call that failed
C19_FailureIsolation ==
    /\ pc = "enhanceKnowledge" =>
           /\ Len(ClusterCalls) = Len(enhResults)
           /\ \A i \in 1..Len(enhResults) : DocumentOfItsCall(i)
    /\ (\E i \in 1..Len(ClusterCalls) : ~ClusterCalls[i].outcome.ok) =>
           \/ pc = "enhanceKnowledge"
           \/ KnowledgeEnhanced
    /\ KnowledgeEnhanced =>
           /\ Len(enhResults) = Len(kbClusters)
           /\ Len(ClusterCalls) = Len(kbClusters)
           /\ knowledgeSummaries = enhResults
           /\ \A i \in 1..Len(enhResults) : DocumentOfItsCall(i)

\* enhanceKnowledge has resolved for three clusters of which the first call
\* and the last call failed and the second returned
C19_Witness ==
    /\ KnowledgeEnhanced
    /\ Len(kbClusters) = 3
    /\ ~ClusterCalls[1].outcome.ok
    /\ ClusterCalls[2].outcome.ok
    /\ ~ClusterCalls[3].outcome.ok
    /\ knowledgeSummaries[2].markdown = ClusterCalls[2].outcome.text


\* the profile after handleEnhance: the heuristic one when the call failed or
\* returned blank text, the returned text otherwise
ProfileKeptOrReplaced ==
    EnhanceEnded =>
        profileMarkdown = IF sent[1].outcome.ok /\ NotBlank(sent[1].outcome.text)
                          THEN sent[1].outcome.text ELSE HeuristicProfile

\* C20: when the profile call fails, profileMarkdown keeps the heuristic
\* profile and every cluster is still submitted for knowledge enhancement;
\* when it returns text that is not blank, profileMarkdown is that text
C20_PerUnitCatch ==
    EnhanceEnded =>
        /\ ProfileKeptOrReplaced
        /\ ~sent[1].outcome.ok => Len(ClusterCalls) = Len(kbClusters)


(***************************************************************************)
(* The worker (parse-worker.js, self.onmessage) and its driver             *)
(* (processWithWorker of app.js, in byok/api-client.js).  The worker runs  *)
(* on its own thread: the driver handles a posted message while the worker *)
(* goes on with the next stage.                                            *)
(***************************************************************************)

ProgressMessage(percent) ==
    [type |-> "progress", percent |-> percent, message |-> "", data |-> NULL]

ResultMessage(data) == [type |-> "result", percent |-> 0, message |-> "", data |-> data]

ErrorMessage(message) == [type |-> "error", percent |-> 0, message |-> message, data |-> NULL]

\* the percentages posted at the start of stages 1 to 6
StagePercents == << 15, 35, 50, 65, 80, 90 >>

\* the percentages of a reversed stage list
ReversedPercent(k) == StagePercents[Len(StagePercents) + 1 - k]

StagePercent(k) == StagePercents[k]

\* the message of the catch: err.message || 'Worker processing failed'
CaughtMessage(message) == IF message # "" THEN message ELSE "Worker processing failed"

\* the messages of the errors a stage throws
ThrownMessages == {"", "Cannot read properties of undefined (reading 'message')"}

\* the data of the result message
PipelineResults == "metadata, conversations, stats, clusters, profile, summaries"

\* resolve and reject act on a pending promise only
Settle(p, state, reason) == IF p.state = "pending" THEN [state |-> state, reason |-> reason] ELSE p

\* the message of the event, whatever it is
EventMessage(message) == message

\* new Error(err.message || 'Worker failed')
TransportReason(message) == IF message # "" THEN message ELSE "Worker failed"

InitWorker == ParseIdle /\ RenderIdle /\ SplitIdle /\ PathIdle /\ ClusterIdle /\ LateIdle

\* processWithWorker: the worker is created and the request is posted
ProcessWithWorker ==
    /\ worker = "none"
    /\ worker' = "created"
    /\ UNCHANGED <<besideWorker, stage, posted, handled, promise, settleCalls, session,
                   progressShown>>

\* a stage of self.onmessage: its progress message is posted and it runs; the
\* first may throw before its post, on a request without rawData
RunStage ==
    /\ worker = "created"
    /\ stage < Len(StagePercents)
    /\ \/ /\ posted' = Append(posted, ProgressMessage(StagePercent(stage + 1)))
          /\ stage' = stage + 1
       \/ \E message \in ThrownMessages :
             /\ posted' = posted \o << ProgressMessage(StagePercent(stage + 1)),
                                       ErrorMessage(CaughtMessage(message)) >>
             /\ stage' = Len(StagePercents) + 1
       \/ /\ stage = 0
          /\ \E message \in ThrownMessages :
                posted' = Append(posted, ErrorMessage(CaughtMessage(message)))
          /\ stage' = Len(StagePercents) + 1
    /\ UNCHANGED <<besideWorker, worker, handled, promise, settleCalls, session, progressShown>>

\* the end of self.onmessage: progress 100, then the result, which postMessage
\* may fail to clone
PostResult ==
    /\ worker = "created"
    /\ stage = Len(StagePercents)
    /\ \/ posted' = posted \o << ProgressMessage(100), ResultMessage(PipelineResults) >>
       \/ \E message \in ThrownMessages :
             posted' = posted \o << ProgressMessage(100), ErrorMessage(CaughtMessage(message)) >>
    /\ stage' = Len(StagePercents) + 1
    /\ UNCHANGED <<besideWorker, worker, handled, promise, settleCalls, session, progressShown>>

\* worker.onmessage for the next posted message
HandleMessage ==
    /\ worker = "created"
    /\ handled < Len(posted)
    /\ handled' = handled + 1
    /\ LET e == posted[handled + 1]
       IN  CASE e.type = "progress" ->
                    /\ progressShown' = Append(progressShown, e.percent)
                    /\ UNCHANGED <<worker, promise, settleCalls, session>>
             [] e.type = "result" ->
                    /\ session' = e.data
                    /\ worker' = "terminated"
                    /\ promise' = Settle(promise, "resolved", "")
                    /\ settleCalls' = settleCalls + 1
                    /\ UNCHANGED progressShown
             [] e.type = "error" ->
                    /\ worker' = "terminated"
                    /\ promise' = Settle(promise, "rejected", e.message)
                    /\ settleCalls' = settleCalls + 1
                    /\ UNCHANGED <<session, progressShown>>
    /\ UNCHANGED <<besideWorker, stage, posted>>

\* worker.onerror: the script of the worker did not start.  Once
\* self.onmessage runs, its try block catches what the stages throw
TransportFailure ==
    /\ worker = "created"
    /\ stage = 0 /\ posted = << >>
    /\ \E message \in {"", "Script error."} :
          promise' = Settle(promise, "rejected", TransportReason(message))
    /\ worker' = "terminated"
    /\ settleCalls' = settleCalls + 1
    /\ UNCHANGED <<besideWorker, stage, posted, handled, session, progressShown>>

WorkerRuns == RunStage \/ PostResult

NextWorker == ProcessWithWorker \/ RunStage \/ PostResult \/ HandleMessage \/ TransportFailure

SpecWorker == InitWorker /\ [][NextWorker]_vars

\* the worker thread runs while it is not terminated; the driver's event loop
\* handles every message it is given
SpecWorkerFair ==
    SpecWorker /\ WF_vars(WorkerRuns) /\ WF_vars(HandleMessage) /\ WF_vars(ProcessWithWorker)

Terminals == SelectSeq(posted, LAMBDA e : e.type \in {"result", "error"})

\* the percentages of the progress messages posted, in order
PercentsPosted ==
    LET progress == SelectSeq(posted, LAMBDA e : e.type = "progress")
    IN  [i \in 1..Len(progress) |-> progress[i].percent]

NonDecreasing(seq) == \A i, j \in 1..Len(seq) : i <= j => seq[i] <= seq[j]

\* progress messages of non-decreasing percentage, then at most one terminal
\* message, the last; a result comes after every stage; a request that has
\* been handled has its terminal message
StreamShape ==
    /\ NonDecreasing(PercentsPosted)
    /\ Len(Terminals) <= 1
    /\ Len(Terminals) = 1 => posted[Len(posted)] = Terminals[1]
    /\ (Len(Terminals) = 1 /\ Terminals[1].type = "result") =>
           /\ stage = Len(StagePercents) + 1
           /\ PercentsPosted = StagePercents \o << 100 >>
    /\ stage = Len(StagePercents) + 1 => Len(Terminals) = 1

HandledMessages == SubSeq(posted, 1, handled)

\* the percentages of the progress messages handled
PercentsHandled ==
    LET progress == SelectSeq(HandledMessages, LAMBDA e : e.type = "progress")
    IN  [i \in 1..Len(progress) |-> progress[i].percent]

\* the promise is pending until the first terminal event; it is resolved on
\* a result, which alone writes the session results, rejected with the
\* message of an error message, and rejected on a transport failure with the
\* message of the event or else with 'Worker failed'; the terminal event is
\* the one call of resolve or reject and terminates the worker; progress
\* messages reach the progress display only
DriverRule ==
    /\ settleCalls <= 1
    /\ settleCalls = 1 <=> promise.state # "pending"
    /\ worker = "terminated" <=> promise.state # "pending"
    /\ progressShown = PercentsHandled
    /\ promise.state = "pending" =>
           /\ session = NULL
           /\ \A i \in 1..handled : posted[i].type = "progress"
    /\ promise.state = "resolved" =>
           /\ handled >= 1 /\ posted[handled].type = "result"
           /\ session = posted[handled].data
    /\ promise.state = "rejected" =>
           /\ session = NULL
           /\ \/ /\ handled >= 1 /\ posted[handled].type = "error"
                 /\ promise.reason = posted[handled].message
              \/ /\ posted = << >>
                 /\ promise.reason \in {"Worker failed", "Script error."}

-----------------------------------------------------------------------------
(***************************************************************************)
(* The two processing paths of app.js: processOnMainThread (parser.js,     *)
(* content-handlers.js, statistics.js) and the worker (parse-worker.js,    *)
(* with its own renderContent, parseMessage, parseConversations and       *)
(* computeStatistics), up to the statistics stage.  A raw conversation is  *)
(* given by its create_time and by the raw messages traverseTree selects   *)
(* from its mapping: the worker's traverseTree is the text of parser.js's. *)
(***************************************************************************)

\* the longest rawData array
MaxPipeConvs == 2

\* a Date, by its time in seconds; null is NoDate
DateOf(seconds) == [isDate |-> TRUE, time |-> seconds]
NoDate == [isDate |-> FALSE, time |-> 0]

\* rawConv.create_time: absent, or a number of seconds
NoCreateTime == [present |-> FALSE, seconds |-> 0]
CreateTime(seconds) == [present |-> TRUE, seconds |-> seconds]

\* parser.js parseTimestamp: only null and undefined give null
parseTimestamp(ts) == IF ~ts.present THEN NoDate ELSE DateOf(ts.seconds)

\* parse-worker.js: `rawConv.create_time ? new Date(...) : null`
workerTimestamp(ts) ==
    IF ~ts.present \/ ts.seconds = 0 THEN NoDate ELSE DateOf(ts.seconds)

\* the worker's fragments are `{ type: 'text', text }`
WorkerFragment(text) == [type |-> "text", text |-> text]

RECURSIVE WorkerPartFragments(_)
WorkerPartFragments(parts) ==
    IF parts = << >> THEN << >>
    ELSE LET part == Head(parts)
             here == IF part.k = "string" THEN << WorkerFragment(part.s) >>
                     ELSE IF part.k = "object"
                     THEN IF part.ct = "image_asset_pointer"
                          THEN << WorkerFragment("[Image]") >>
                          ELSE IF part.s # "" THEN << WorkerFragment(part.s) >>
                          ELSE << >>
                     ELSE << >>
         IN  here \o WorkerPartFragments(Tail(parts))

\* parse-worker.js renderContent; `for (const part of parts)` throws when
\* parts is a number
workerRenderContent(content) ==
    LET contentType == IF content.content_type \in {NULL, ""} THEN "text"
                       ELSE content.content_type
        fenced == IF contentType = "code" /\ content.text # ""
                  THEN << WorkerFragment(Fence \o content.language \o "\n"
                                         \o content.text \o "\n" \o Fence) >>
                  ELSE IF contentType = "execution_output" /\ content.text # ""
                  THEN << WorkerFragment(Fence \o "\n" \o content.text \o "\n" \o Fence) >>
                  ELSE << >>
    IN  IF content.parts.tag = "scalar" THEN Threw
        ELSE Returned(WorkerPartFragments(content.parts.items) \o fenced)

\* parse-worker.js parseMessage
workerParseMessage(raw) ==
    LET roleStr == IF raw.role \in {NULL, ""} THEN "user" ELSE raw.role
        content == IF raw.content.nil THEN EmptyPayload ELSE raw.content
        rendering == workerRenderContent(content)
    IN  [id |-> raw.id,
         authorRole |-> IF roleStr \in VALID_ROLES THEN roleStr ELSE "user",
         contentParts |-> rendering.frags,
         rendering |-> rendering.outcome,
         modelSlug |-> raw.slug]

\* parseConversations(rawData, { metadataOnly: false }) of parser.js
mainParseConversations(raws) ==
    [i \in 1..Len(raws) |->
        [createdAt |-> parseTimestamp(raws[i].create_time),
         messages |-> ParseAll(raws[i].selected)]]

\* parseConversations(raws, false) of parse-worker.js
workerParseConversations(raws) ==
    [i \in 1..Len(raws) |->
        [createdAt |-> workerTimestamp(raws[i].create_time),
         messages |-> [m \in 1..Len(raws[i].selected) |->
                          workerParseMessage(raws[i].selected[m])]]]

\* the messages of all conversations, in order
RECURSIVE AllMessages(_)
AllMessages(conversations) ==
    IF conversations = << >> THEN << >>
    ELSE Head(conversations).messages \o AllMessages(Tail(conversations))

\* a counting object `{ key: count }`, as the set of its entries
Tally(keys) ==
    {<<k, Cardinality({i \in 1..Len(keys) : keys[i] = k})>> : k \in Range(keys)}

RolesOf(msgs) == [i \in 1..Len(msgs) |-> msgs[i].authorRole]

\* the slugs of the messages with `if (msg.modelSlug)`
TruthySlugs(msgs) ==
    LET truthy == SelectSeq(msgs, LAMBDA m : m.modelSlug \notin {NULL, ""})
    IN  [i \in 1..Len(truthy) |-> truthy[i].modelSlug]

\* the createdAt of the conversations with `if (conv.createdAt)`, in order
DatesOf(conversations) ==
    LET dated == SelectSeq(conversations, LAMBDA c : c.createdAt.isDate)
    IN  [i \in 1..Len(dated) |-> dated[i].createdAt]

\* `if (!x || dt < x) x = dt` over the dates: the first of the earliest
Earliest(dates) ==
    IF dates = << >> THEN NoDate
    ELSE CHOOSE d \in Range(dates) : \A e \in Range(dates) : d.time <= e.time

\* `if (!x || dt > x) x = dt` over the dates
Latest(dates) ==
    IF dates = << >> THEN NoDate
    ELSE CHOOSE d \in Range(dates) : \A e \in Range(dates) : d.time >= e.time

TwoDigits(n) == IF n < 10 THEN "0" \o ToString(n) ELSE ToString(n)

\* d.toISOString().slice(0, 10) for a date of the first quarter of 1970
IsoDate(date) ==
    LET day == date.time \div 86400
    IN  IF day < 31 THEN "1970-01-" \o TwoDigits(day + 1)
        ELSE IF day < 59 THEN "1970-02-" \o TwoDigits(day - 30)
        ELSE "1970-03-" \o TwoDigits(day - 58)

\* `${y}-${m}` of statistics.js
MonthKey(date) == SubSeq(IsoDate(date), 1, 7)

\* statistics.js computeStatistics, for full conversations
computeStatistics(conversations) ==
    LET msgs == AllMessages(conversations)
        dates == DatesOf(conversations)
    IN  [totalConversations |-> Len(conversations),
         totalMessages |-> Len(msgs),
         dateRange |-> [start |-> Earliest(dates), end |-> Latest(dates)],
         modelsUsed |-> Tally(TruthySlugs(msgs)),
         messagesByRole |-> Tally(RolesOf(msgs)),
         conversationsByMonth |-> Tally([i \in 1..Len(dates) |-> MonthKey(dates[i])])]

\* parse-worker.js computeStatistics
workerComputeStatistics(conversations) ==
    LET msgs == AllMessages(conversations)
        dates == DatesOf(conversations)
    IN  [totalConversations |-> Len(conversations),
         totalMessages |-> Len(msgs),
         totalUserMessages |-> Len(SelectSeq(msgs, LAMBDA m : m.authorRole = "user")),
         totalAssistantMessages |->
             Len(SelectSeq(msgs, LAMBDA m : m.authorRole = "assistant")),
         modelsUsed |-> Tally(TruthySlugs(msgs)),
         dateRange |-> [earliest |-> Earliest(dates), latest |-> Latest(dates)]]

\* obj[field] of a JavaScript object: undefined when the object has no such
\* property
Read(obj, field, undefined) == IF field \in DOMAIN obj THEN obj[field] ELSE undefined

\* statistics.js formatDateRange
formatDateRange(dateRange) ==
    LET start == Read(dateRange, "start", NoDate)
        end   == Read(dateRange, "end", NoDate)
    IN  IF ~start.isDate \/ ~end.isDate THEN "Unknown"
        ELSE IsoDate(start) \o " -> " \o IsoDate(end)

\* the session results a path leaves: `conversations` and `stats` of app.js
Session(conversations, stats) ==
    [ran |-> TRUE, conversations |-> conversations, stats |-> stats]

\* raw conversations: create_time, and the raw messages traverseTree selects
RawConversation(createTime, selected) ==
    [create_time |-> createTime, selected |-> selected]

PipeMessage(id, role, content, slug) ==
    [RawMessage(role, FALSE, content, slug) EXCEPT !.id = id]

PipeSamples ==
    { RawConversation(CreateTime(86400),
          << PipeMessage("m1", "user", TextPayload("hi"), "") >>),
      RawConversation(CreateTime(2678400),
          << PipeMessage("m1", "user",
                 Payload("text", Parts(<< StrPart("yo"), StrPart(" ") >>), "", ""), ""),
             PipeMessage("m2", "assistant",
                 Payload("code", Parts(<< >>), "x = 1", ""), "gpt-4") >>),
      RawConversation(NoCreateTime,
          << PipeMessage("m1", "assistant",
                 Payload("execution_output", Parts(<< StrPart("42") >>), "42", ""), "o1") >>),
      RawConversation(CreateTime(0), << >>),
      RawConversation(CreateTime(86400),
          << PipeMessage("m1", "user",
                 Payload("multimodal_text",
                         Parts(<< ObjPart("image_asset_pointer", "file-1", "", "") >>),
                         "", ""), ""),
             PipeMessage("m2", "assistant", TextPayload("yo"), "gpt-4") >>),
      RawConversation(NoCreateTime, << >>) }

\* every sampled message is one the backward walk keeps, and none makes a
\* renderContent throw
PipeInputs ==
    {raws \in SeqUpTo(PipeSamples, MaxPipeConvs) :
        \A i \in 1..Len(raws) : \A m \in 1..Len(raws[i].selected) :
            /\ Verdict(raws[i].selected[m]) = "keep"
            /\ parseMessage(raws[i].selected[m]).rendering = "list"
            /\ workerParseMessage(raws[i].selected[m]).rendering = "list"}

InitPipeline ==
    /\ ParseIdle /\ RenderIdle /\ SplitIdle /\ PathIdle /\ ClusterIdle
    /\ KnowIdle /\ WorkerIdle /\ UnitIdle
    /\ pipeInput \in PipeInputs
    /\ mainSession = NotRun
    /\ workerSession = NotRun

\* processOnMainThread, up to `stats = computeStatistics(conversations)`
ProcessOnMainThread ==
    /\ ~mainSession.ran
    /\ LET conversations == mainParseConversations(pipeInput)
       IN  mainSession' = Session(conversations, computeStatistics(conversations))
    /\ UNCHANGED <<pipeInput, workerSession, besidePipe>>

\* the worker's stages 2 and 3 and the result handler of processWithWorker:
\* `conversations = data.conversations; stats = data.stats`
ProcessInWorker ==
    /\ ~workerSession.ran
    /\ LET conversations == workerParseConversations(pipeInput)
       IN  workerSession' = Session(conversations, workerComputeStatistics(conversations))
    /\ UNCHANGED <<pipeInput, mainSession, besidePipe>>

NextPipeline == ProcessOnMainThread \/ ProcessInWorker

SpecPipeline == InitPipeline /\ [][NextPipeline]_vars

BothRan == mainSession.ran /\ workerSession.ran

\* the two message lists of every conversation agree in length, ids, roles
\* and model slugs
SameMessageLists ==
    /\ Len(mainSession.conversations) = Len(workerSession.conversations)
    /\ \A c \in 1..Len(mainSession.conversations) :
        LET a == mainSession.conversations[c].messages
            b == workerSession.conversations[c].messages
        IN  /\ Len(a) = Len(b)
            /\ \A m \in 1..Len(a) :
                /\ a[m].id = b[m].id
                /\ a[m].authorRole = b[m].authorRole
                /\ a[m].modelSlug = b[m].modelSlug

\* the properties of a fragment the writers read
FragmentFields == {"contentType", "text", "language", "title", "url", "imageRef"}

SameFragment(a, b) == \A f \in FragmentFields : Read(a, f, "") = Read(b, f, "")

SameFragments ==
    \A c \in 1..Len(mainSession.conversations) :
        \A m \in 1..Len(mainSession.conversations[c].messages) :
            LET a == mainSession.conversations[c].messages[m].contentParts
                b == workerSession.conversations[c].messages[m].contentParts
            IN  /\ Len(a) = Len(b)
                /\ \A f \in 1..Len(a) : SameFragment(a[f], b[f])

SameCounts ==
    /\ mainSession.stats.totalConversations = workerSession.stats.totalConversations
    /\ mainSession.stats.totalMessages = workerSession.stats.totalMessages
    /\ mainSession.stats.modelsUsed = workerSession.stats.modelsUsed

SameDateRange ==
    /\ Read(mainSession.stats.dateRange, "start", NoDate)
           = Read(workerSession.stats.dateRange, "start", NoDate)
    /\ Read(mainSession.stats.dateRange, "end", NoDate)
           = Read(workerSession.stats.dateRange, "end", NoDate)
    /\ formatDateRange(mainSession.stats.dateRange)
           = formatDateRange(workerSession.stats.dateRange)

SameFields == DOMAIN mainSession.stats = DOMAIN workerSession.stats

\* C18: for every raw input, the worker path and the main-thread path leave
\* the session with equal results: the same message list and the same
\* content fragments per conversation, and statistics with the same fields
\* and values (total conversations, total messages, the date range start and
\* end that formatDateRange reads, per-model counts).
C18_SamePipeline ==
    BothRan => /\ SameMessageLists
               /\ SameFragments
               /\ SameFields
               /\ SameCounts
               /\ SameDateRange

\* what the two paths do agree on: the message lists and the counts
PathsAgreeOnListsAndCounts == BothRan => SameMessageLists /\ SameCounts


-----------------------------------------------------------------------------
(***************************************************************************)
(* jaccardSimilarity (clusterer.js) on its own.  Its arguments are the     *)
(* Sets clusterConversations builds with `new Set(...)`: a Set holds no    *)
(* term twice, and may be empty (a conversation without a token).          *)
(***************************************************************************)

\* every pipeline stage idle
StagesIdle ==
    /\ ParseIdle /\ RenderIdle /\ SplitIdle /\ PathIdle /\ ClusterIdle
    /\ KnowIdle /\ WorkerIdle /\ PipeIdle

\* the most terms of a generated Set
MaxSetSize == 3

JacTerms == {"python", "script", "garden", "soil"}

\* the Sets of at most MaxSetSize terms, each as its terms in insertion order
JacSets ==
    {seq \in SeqUpTo(JacTerms, MaxSetSize) :
        \A i, j \in 1..Len(seq) : i # j => seq[i] # seq[j]}

InitJaccard ==
    /\ StagesIdle /\ IdleBesideJac
    /\ jacA \in JacSets
    /\ jacB \in JacSets
    /\ jacSim = NoSim

\* a call jaccardSimilarity(setA, setB)
CallJaccard ==
    /\ ~jacSim.called
    /\ LET sim == jaccardSimilarity(jacA, jacB)
       IN  jacSim' = [called |-> TRUE, num |-> sim.num, den |-> sim.den]
    /\ UNCHANGED <<jacA, jacB, besideJac>>

NextJaccard == CallJaccard

SpecJaccard == InitJaccard /\ [][NextJaccard]_vars

\* the fraction of a similarity, for comparisons
AsSim(sim) == [num |-> sim.num, den |-> sim.den]

\* C27: for any two non-empty keyword sets A and B, jaccardSimilarity(A, B)
\* lies in [0, 1], equals jaccardSimilarity(B, A), equals 1 when A = B and
\* equals 0 when A and B are disjoint.
C27_JaccardBounds ==
    (jacSim.called /\ jacA # << >> /\ jacB # << >>) =>
        /\ jacSim.den > 0
        /\ 0 <= jacSim.num /\ jacSim.num <= jacSim.den
        /\ AsSim(jacSim) = jaccardSimilarity(jacB, jacA)
        /\ (Range(jacA) = Range(jacB)) => jacSim.num = jacSim.den
        /\ (Range(jacA) \cap Range(jacB) = {}) => jacSim.num = 0

\* a call on two Sets that overlap in part: the similarity is strictly
\* between 0 and 1
C27_Witness ==
    /\ jacSim.called
    /\ jacA = << "python", "script" >>
    /\ jacB = << "script", "garden", "python" >>
    /\ jacSim.num = 2 /\ jacSim.den = 3


-----------------------------------------------------------------------------
(***************************************************************************)
(* sanitizeFilename (organizer.js) on its own, over short titles made of   *)
(* a letter, the two separators, a space, two reserved characters and a    *)
(* character outside [\w\-.] that is not reserved.                         *)
(***************************************************************************)

\* the longest generated title
MaxTitleLen == 3

\* the greatest generated maxLength
MaxMaxLength == 3

TitleChars == {"a", ".", "_", " ", "/", ":", "#"}

RECURSIVE Concat(_)
Concat(pieces) == IF pieces = << >> THEN "" ELSE Head(pieces) \o Concat(Tail(pieces))

GeneratedTitles == {Concat(pieces) : pieces \in SeqUpTo(TitleChars, MaxTitleLen)}

InitSanitize ==
    /\ StagesIdle /\ IdleBesideSan
    /\ sanTitle \in GeneratedTitles
    /\ sanMaxLength \in 1..MaxMaxLength
    /\ sanName = NULL

\* a call sanitizeFilename(title, maxLength)
CallSanitize ==
    /\ sanName = NULL
    /\ sanName' = sanitizeFilename(sanTitle, sanMaxLength)
    /\ UNCHANGED <<sanTitle, sanMaxLength, besideSan>>

NextSanitize == CallSanitize

SpecSanitize == InitSanitize /\ [][NextSanitize]_vars

Separators == {".", "_"}

\* non-empty, at most maxLength characters, of [\w\-.] only
NameWithinClass ==
    /\ sanName # ""
    /\ Len(sanName) <= sanMaxLength
    /\ CharsOf(sanName) \subseteq NameChars
    /\ CharsOf(sanName) \cap (ReservedChars \cup SpaceChars) = {}

NoSeparatorAtTheEnds ==
    /\ SubSeq(sanName, 1, 1) \notin Separators
    /\ SubSeq(sanName, Len(sanName), Len(sanName)) \notin Separators

\* C23: for every title and every maxLength >= 1, the result of
\* sanitizeFilename is non-empty, at most maxLength characters long, consists
\* only of ASCII word characters, '-' and '.', contains no forbidden
\* character and no whitespace, and neither begins nor ends with '.' or '_'.
C23_LegalName == (sanName # NULL) => (NameWithinClass /\ NoSeparatorAtTheEnds)

\* the part of C23 that holds: all but the end of the name
NameLegalButForItsEnd ==
    (sanName # NULL) => (NameWithinClass /\ SubSeq(sanName, 1, 1) \notin Separators)


-----------------------------------------------------------------------------
(***************************************************************************)
(* The shape of what maybeSplit returns (splitter.js).                     *)
(***************************************************************************)

\* the distinct truthy model slugs of the messages
DistinctSlugs(msgs) ==
    {slug \in {msgs[i].modelSlug : i \in 1..Len(msgs)} : slug \notin {NULL, ""}}

\* the i-th element is the i-th part of the conversation
IsPartOf(part, conv, i) ==
    /\ part.id = conv.id \o "_part" \o ToString(i)
    /\ part.title = conv.title \o " (Part " \o ToString(i) \o ")"
    /\ part.createdAt = conv.createdAt
    /\ part.updatedAt = conv.updatedAt
    /\ part.modelSlugs = DistinctSlugs(part.messages)

\* C24: maybeSplit returns either the one original conversation unchanged
\* (always when its Markdown is at most maxSize) or k >= 2 parts in message
\* order, the i-th with id <id>_part<i>, title <title> (Part <i>), the original
\* createdAt and updatedAt, and the distinct model slugs of its own messages.
C24_SplitShape ==
    (pc = "done") =>
        /\ \/ splitParts = << conversation >>
           \/ /\ Len(splitParts) >= 2
              /\ \A i \in 1..Len(splitParts) : IsPartOf(splitParts[i], conversation, i)
              /\ MessagesOf(splitParts) = conversation.messages
        /\ (Len(conversationToMarkdown(conversation, TRUE, TRUE)) <= maxSize)
               => splitParts = << conversation >>

\* a conversation cut into two parts whose model slugs differ from each
\* other and from those of the whole
C24_Witness ==
    /\ pc = "done"
    /\ Len(splitParts) = 2
    /\ splitParts[1].modelSlugs = {"gpt-4"}
    /\ splitParts[2].modelSlugs = {"o1"}
    /\ conversation.modelSlugs = {"gpt-4", "o1"}
    /\ splitParts[2].id = "c1_part2"

\* a conversation over maxSize that comes back whole, its packing having
\* made one part
C24_WitnessOnePart ==
    /\ pc = "done"
    /\ Len(conversationToMarkdown(conversation, TRUE, TRUE)) > maxSize
    /\ splitParts = << conversation >>


-----------------------------------------------------------------------------
(***************************************************************************)
(* The two projections of one record (parser.js): messageCount of the      *)
(* ConversationMeta against the messages of the Conversation.              *)
(***************************************************************************)

\* the messages of a parsed Conversation with authorRole user or assistant
UserAndAssistant(conv) ==
    Cardinality({m \in 1..Len(conv.messages) :
                    conv.messages[m].authorRole \in {"user", "assistant"}})

\* C28: for every raw record, messageCount of its ConversationMeta is never
\* smaller than the number of messages with authorRole user or assistant of
\* its fully parsed Conversation.
C28_MetaCountCoversFull ==
    (pc = "returned" /\ ~metadataOnly) =>
        \A i \in 1..Len(results) :
            ~CountThrows(rawData[i].mapping) =>
                ConversationMeta(rawData[i]).messageCount >= UserAndAssistant(results[i])

\* the raw role of a kept message, '' when it has none
RawRoleIn(mapping, id) ==
    LET role == NodeOf(mapping, id).message.role
    IN  IF role = NULL THEN "" ELSE role

\* the part of C28 that holds: messageCount is never smaller than the number
\* of messages of the Conversation whose raw role is user or assistant
MetaCountCoversRawRoles ==
    (pc = "returned" /\ ~metadataOnly) =>
        \A i \in 1..Len(results) :
            ~CountThrows(rawData[i].mapping) =>
                ConversationMeta(rawData[i]).messageCount >=
                    Cardinality({m \in 1..Len(results[i].messages) :
                        RawRoleIn(rawData[i].mapping, results[i].messages[m].id)
                            \in {"user", "assistant"}})


-----------------------------------------------------------------------------
(***************************************************************************)
(* The fragments of the kept messages (parser.js traverseTree and          *)
(* parseMessage, content-handlers renderContent).                          *)
(***************************************************************************)

\* the raw message a Message of results[i] was parsed from
RawOf(i, message) == NodeOf(rawData[i].mapping, message.id).message

Renders(part) ==
    \/ part.k = "string" /\ Trim(part.s) # ""
    \/ part.k = "object" /\ (part.ct \in ImageTypes \cup FileTypes \/ part.s # "")

\* content the handlers make at least one fragment from
HasInspectable(content) ==
    LET contentType == IF content.content_type \in {NULL, ""} THEN "text"
                       ELSE content.content_type
    IN  CASE contentType \in {"text", "multimodal_text"} ->
                \E p \in 1..Len(content.parts.items) : Renders(content.parts.items[p])
          [] contentType \in {"code", "tether_quote"} -> TRUE
          [] contentType = "execution_output" -> content.text # ""
          [] contentType = "tether_browsing_display" -> content.result # ""
          [] contentType \in InheritedKeys -> FALSE
          [] OTHER -> TRUE

C29_WitnessNoFragment ==
    /\ pc = "returned"
    /\ \E i \in FullResults : \E m \in 1..Len(results[i].messages) :
          /\ results[i].messages[m].contentParts = << >>
          /\ results[i].messages[m].rendering = "list"


-----------------------------------------------------------------------------
(***************************************************************************)
(* clusterConversations called twice on the same array (clusterer.js).     *)
(* The function keeps nothing between calls: topKeywords, clusters and the *)
(* returned array are locals.  Array.prototype.sort is a function of its   *)
(* input in any one engine, also where the order is implementation-defined *)
(* (a NaN key): a sort of the second call whose input the first call       *)
(* sorted returns what it returned then.                                   *)
(***************************************************************************)

\* steps 1 to 3 and the first round of agglomerativeCluster
TwiceStart ==
    /\ StartClustering
    /\ firstRun.ran => topKeywords' = firstRun.topKeywords

\* what the sort of getClusterKeywords returns for these indices: what it
\* returned before on the same input, any of its outcomes on a new one
SortedBefore(memo, indices, topKw) ==
    {memo[k].keywords : k \in {j \in 1..Len(memo) : memo[j].indices = indices /\ memo[j].topKw = topKw}}

\* one call of the callback of clusters.map, and the return after the last
TwiceLabel ==
    /\ pc = "label"
    /\ LET indices == clusters[Len(labelled) + 1]
           before == SortedBefore(firstRun.sorts, indices, topKeywords)
       IN  \E keywords \in (IF before # {} THEN before
                            ELSE ClusterKeywordOutcomes(indices, topKeywords)) :
              /\ labelled' = Append(labelled,
                                    Cluster(generateLabel(keywords), indices,
                                            SubSeq(keywords, 1,
                                                   IF Len(keywords) < 10 THEN Len(keywords) ELSE 10)))
              /\ sorts' = Append(sorts, [indices |-> indices, topKw |-> topKeywords,
                                         keywords |-> keywords])
    /\ pc' = IF Len(labelled) + 1 = Len(clusters) THEN "done" ELSE "label"
    /\ UNCHANGED <<docVars, knowVars, workerVars, pipeVars, unitsBesideTwice, clusterInput,
                   topKeywords, clusters, firstRun>>

\* the first call has returned and the caller calls again with the same array
CallAgain ==
    /\ pc = "done"
    /\ ~firstRun.ran
    /\ firstRun' = [ran |-> TRUE, topKeywords |-> topKeywords, sorts |-> sorts,
                    labelled |-> labelled]
    /\ pc' = "idle"
    /\ topKeywords' = << >> /\ clusters' = << >> /\ labelled' = << >> /\ sorts' = << >>
    /\ UNCHANGED <<docVars, knowVars, workerVars, pipeVars, unitsBesideTwice, clusterInput>>

NextTwice == TwiceStart \/ MergeClusters \/ PoolSingles \/ TwiceLabel \/ CallAgain

SpecTwice == InitCluster /\ [][NextTwice]_vars

\* the second call has returned
BothReturned == firstRun.ran /\ pc = "done"

PositiveSims(topKw) ==
    {p \in (1..Len(topKw)) \X (1..Len(topKw)) :
        p[1] < p[2] /\ GreaterSim(jaccardSimilarity(topKw[p[1]], topKw[p[2]]), ZeroSim)}

\* no two pairs of conversations are equally similar
NoTies(topKw) ==
    \A p, q \in PositiveSims(topKw) :
        p # q => LET a == jaccardSimilarity(topKw[p[1]], topKw[p[2]])
                     b == jaccardSimilarity(topKw[q[1]], topKw[q[2]])
                 IN  GreaterSim(a, b) \/ GreaterSim(b, a)

C26_WitnessNaN ==
    /\ BothReturned
    /\ \E k \in 1..Len(sorts) :
          Cardinality(ClusterKeywordOutcomes(sorts[k].indices, topKeywords)) > 1


-----------------------------------------------------------------------------
(***************************************************************************)
(* Timestamps: parseTimestamp (parser.js), the worker's inline parse       *)
(* (parse-worker.js), and the stages that format createdAt and updatedAt:  *)
(* renderFrontmatter and renderIndex (markdown-writer.js),                 *)
(* resolveOutputPath (organizer.js), computeStatistics and formatDateRange *)
(* (statistics.js).                                                        *)
(***************************************************************************)

\* the values JSON.parse can put at create_time
JsonNull    == [kind |-> "null", n |-> 0, s |-> ""]
Num(n)      == [kind |-> "number", n |-> n, s |-> ""]
\* a number of seconds past the range of Date: times 1000 it is over 8.64e15
BeyondRange == [kind |-> "hugeNumber", n |-> 0, s |-> ""]
Str(s)      == [kind |-> "string", n |-> 0, s |-> s]
Bool(b)     == [kind |-> "boolean", n |-> IF b THEN 1 ELSE 0, s |-> ""]
EmptyObject == [kind |-> "object", n |-> 0, s |-> ""]
EmptyArray  == [kind |-> "array", n |-> 0, s |-> ""]

\* the strings of the samples that are numeric literals, with their value
NumericStrings == {"", "86400"}
ValueOfString(s) == IF s = "86400" THEN 86400 ELSE 0

StampValues ==
    {Absent, JsonNull, Num(0), Num(1), Num(86400), Num(5097600), BeyondRange,
     Str(""), Str("86400"), Str("abc"), Str("1970-01-02T00:00:00Z"),
     Bool(TRUE), EmptyObject, EmptyArray}

\* a Number: NaN, a number too large for a time value, or n
NaN == [nan |-> TRUE, huge |-> FALSE, n |-> 0]
Huge == [nan |-> FALSE, huge |-> TRUE, n |-> 0]
Finite(n) == [nan |-> FALSE, huge |-> FALSE, n |-> n]

\* Number(ts) for a value that is not null or undefined
ToNumber(value) ==
    CASE value.kind = "number"     -> Finite(value.n)
      [] value.kind = "hugeNumber" -> Huge
      [] value.kind = "string"     -> IF value.s \in NumericStrings
                                      THEN Finite(ValueOfString(value.s)) ELSE NaN
      [] value.kind = "boolean"    -> Finite(value.n)
      [] value.kind = "array"      -> Finite(0)
      [] OTHER                     -> NaN

\* new Date(number * 1000): the time value is NaN when the number is NaN or
\* out of range
NewDate(number) == IF number.nan \/ number.huge THEN InvalidDate ELSE JsDate(number.n)

\* parser.js parseTimestamp on any JSON value: Number() and new Date() raise
\* nothing on such a value, so the catch is never entered
parseTimestampValue(ts) ==
    IF ts.kind \in {"absent", "null"} THEN NullStamp ELSE NewDate(ToNumber(ts))

\* whether `value ? a : b` takes a
TruthyValue(value) ==
    ~ \/ value.kind \in {"absent", "null"}
      \/ value.kind = "number" /\ value.n = 0
      \/ value.kind = "string" /\ value.s = ""
      \/ value.kind = "boolean" /\ value.n = 0

\* parse-worker.js: `rawConv.create_time ? new Date(Number(...) * 1000) : null`
workerTimestampValue(ts) == IF TruthyValue(ts) THEN NewDate(ToNumber(ts)) ELSE NullStamp

\* hh:mm:ss of a time of day in seconds
ClockOf(seconds) ==
    TwoDigits(seconds \div 3600) \o ":" \o TwoDigits((seconds % 3600) \div 60) \o ":"
        \o TwoDigits(seconds % 60)

\* date.toISOString(): a RangeError when the time value is NaN
toISOString(date) ==
    IF ~date.valid THEN Raised("RangeError: Invalid time value")
    ELSE Gave(IsoDate(date) \o "T" \o ClockOf(date.time % 86400) \o ".000Z")

\* `${y}-${m}` from getUTCFullYear and getUTCMonth, which give NaN when the
\* time value is NaN
YearMonth(date) == IF ~date.valid THEN "NaN-NaN" ELSE MonthKey(date)

\* the lines renderFrontmatter writes for the two timestamps
FrontmatterStamps(conv) ==
    LET created == IF conv.createdAt.isDate THEN toISOString(conv.createdAt) ELSE Gave("")
        updated == IF conv.updatedAt.isDate THEN toISOString(conv.updatedAt) ELSE Gave("")
    IN  IF created.state = "threw" THEN created
        ELSE IF updated.state = "threw" THEN updated
        ELSE Gave((IF conv.createdAt.isDate THEN "created: '" \o created.text \o "'\n" ELSE "")
                  \o (IF conv.updatedAt.isDate THEN "updated: '" \o updated.text \o "'\n" ELSE ""))

\* dateStr of the entry renderIndex writes for the conversation
IndexDate(conv) ==
    IF ~conv.createdAt.isDate THEN Gave("?")
    ELSE IF ~conv.createdAt.valid THEN toISOString(conv.createdAt)
    ELSE Gave(IsoDate(conv.createdAt))

\* subdir of resolveOutputPath in the monthly mode
Subdir(conv) ==
    IF conv.createdAt.isDate THEN Gave(YearMonth(conv.createdAt)) ELSE Gave("undated")

\* computeStatistics on the one conversation, then formatDateRange
DateRangeText(conv) ==
    IF ~conv.createdAt.isDate THEN Gave("Unknown")
    ELSE IF ~conv.createdAt.valid THEN toISOString(conv.createdAt)
    ELSE Gave(IsoDate(conv.createdAt) \o " -> " \o IsoDate(conv.createdAt))

InitStamps ==
    /\ StagesIdle /\ IdleBesideStamp
    /\ tsCreate \in StampValues
    /\ tsUpdate \in StampValues
    /\ tsConv = NotParsed
    /\ tsOut = NoOutput

besideStamp == <<stageVars, unitsBesideStamp>>

\* parseConversations of parser.js: the two timestamps of the record
ParseStamps ==
    /\ tsConv = NotParsed
    /\ tsConv' = [path |-> "main", createdAt |-> parseTimestampValue(tsCreate),
                  updatedAt |-> parseTimestampValue(tsUpdate)]
    /\ UNCHANGED <<besideStamp, tsCreate, tsUpdate, tsOut>>

\* parseConversations of parse-worker.js
ParseStampsInWorker ==
    /\ tsConv = NotParsed
    /\ tsConv' = [path |-> "worker", createdAt |-> workerTimestampValue(tsCreate),
                  updatedAt |-> workerTimestampValue(tsUpdate)]
    /\ UNCHANGED <<besideStamp, tsCreate, tsUpdate, tsOut>>

\* a stage formats the timestamps of the parsed conversation
Format(output, outcome) ==
    /\ tsConv # NotParsed
    /\ tsOut[output] = NotCalled
    /\ tsOut' = [tsOut EXCEPT ![output] = outcome]
    /\ UNCHANGED <<besideStamp, tsCreate, tsUpdate, tsConv>>

RenderFrontmatter == Format("frontmatter", FrontmatterStamps(tsConv))

RenderIndexEntry == Format("index", IndexDate(tsConv))

ResolveOutputPath == Format("path", Subdir(tsConv))

FormatDateRange == Format("range", DateRangeText(tsConv))

NextStamps ==
    \/ ParseStamps
    \/ ParseStampsInWorker
    \/ RenderFrontmatter
    \/ RenderIndexEntry
    \/ ResolveOutputPath
    \/ FormatDateRange

SpecStamps == InitStamps /\ [][NextStamps]_vars

\* a value that is no number of epoch seconds
Unparseable(value) ==
    value.kind \notin {"absent", "null"} /\ (ToNumber(value).nan \/ ToNumber(value).huge)

\* what the claim says parseTimestamp returns for the value
StampAsSpecified(value, stamp) ==
    /\ value.kind \in {"absent", "null"} => stamp = NullStamp
    /\ Unparseable(value) => stamp = NullStamp
    /\ value.kind = "number" => stamp = JsDate(value.n)

NoStageThrew ==
    \A output \in DOMAIN tsOut : tsOut[output].state # "threw"

\* C22: parseTimestamp returns null for a null or absent value and for a
\* value that is no epoch seconds, the timestamp for a number of seconds, and
\* raises nothing; createdAt and updatedAt of a parsed conversation are null
\* or a valid timestamp, and no stage that formats them fails.
C22_TimestampTotal ==
    /\ tsConv.path = "main" =>
          /\ StampAsSpecified(tsCreate, tsConv.createdAt)
          /\ StampAsSpecified(tsUpdate, tsConv.updatedAt)
    /\ tsConv.createdAt.isDate => tsConv.createdAt.valid
    /\ tsConv.updatedAt.isDate => tsConv.updatedAt.valid
    /\ NoStageThrew

\* what parseTimestamp does: null for null and undefined only, else the Date
\* of Number(value) * 1000, valid or not
StampAsCoded(value, stamp) ==
    /\ (stamp = NullStamp) <=> value.kind \in {"absent", "null"}
    /\ stamp.isDate => (stamp.valid <=> ~Unparseable(value))
    /\ value.kind = "number" => stamp = JsDate(value.n)

\* the part of C22 that holds: the parse raises nothing and is right about
\* null and about numbers; a stage fails only on an Invalid Date
TimestampsAsCoded ==
    /\ tsConv.path = "main" =>
          /\ StampAsCoded(tsCreate, tsConv.createdAt)
          /\ StampAsCoded(tsUpdate, tsConv.updatedAt)
    /\ ~NoStageThrew =>
          \/ tsConv.createdAt.isDate /\ ~tsConv.createdAt.valid
          \/ tsConv.updatedAt.isDate /\ ~tsConv.updatedAt.valid


-----------------------------------------------------------------------------
(***************************************************************************)
(* analyzeCommunicationStyle (profile-builder.js).  The texts of the model *)
(* have one line each.                                                     *)
(***************************************************************************)

\* the longest messages array
MaxStyleMessages == 3

RECURSIVE Filler(_)
Filler(n) ==
    IF n = 0 THEN "" ELSE IF n = 1 THEN "x" ELSE Filler(n \div 2) \o Filler(n - n \div 2)

\* text, filled up to n characters
Padded(text, n) == text \o Filler(n - Len(text))

StyleTexts ==
    {"fix it", "  Write this", "Additionally", "please fix", "",
     Padded("how ", 49), Padded("- how ", 50), Padded("fix ", 50), Padded("build ", 199),
     Padded("**why** ", 200), Padded("def f ", 351)}

StyleInputs == SeqUpTo(StyleTexts, MaxStyleMessages)

\* m.includes(needle)
Includes(m, needle) ==
    \E i \in 1..(Len(m) - Len(needle) + 1) : SubSeq(m, i, i + Len(needle) - 1) = needle

\* m.trim(), for texts whose white space is the space character
RECURSIVE TrimSpaces(_)
TrimSpaces(m) ==
    IF m = "" THEN ""
    ELSE IF SubSeq(m, 1, 1) = " " THEN TrimSpaces(SubSeq(m, 2, Len(m)))
    ELSE IF SubSeq(m, Len(m), Len(m)) = " " THEN TrimSpaces(SubSeq(m, 1, Len(m) - 1))
    ELSE m

\* the alternatives of the regular expression of specificStarters
Starters ==
    {"fix", "write", "create", "build", "convert", "debug", "update", "add", "implement",
     "remove"}

\* /^(fix|write|...)/i.test(m.trim()): the trimmed text begins with the
\* letters of an alternative, in either case
StartsSpecific(m) ==
    LET text == TrimSpaces(m)
    IN  \E starter \in Starters :
            /\ Len(text) >= Len(starter)
            /\ toLowerCase(SubSeq(text, 1, Len(starter))) = starter

\* /^#{1,3}\s|\*\*|^\s*-\s/m.test(m) on a text of one line
LooksLikeMarkdown(m) ==
    LET AfterSpaces(text, from) ==
            IF \E i \in from..Len(text) : SubSeq(text, i, i) # " "
            THEN CHOOSE i \in from..Len(text) :
                     SubSeq(text, i, i) # " " /\ \A j \in from..(i - 1) : SubSeq(text, j, j) = " "
            ELSE Len(text) + 1
        dash == AfterSpaces(m, 1)
    IN  \/ \E hashes \in 1..3 :
              /\ Len(m) > hashes
              /\ \A i \in 1..hashes : SubSeq(m, i, i) = "#"
              /\ SubSeq(m, hashes + 1, hashes + 1) = " "
        \/ Includes(m, "**")
        \/ dash < Len(m) /\ SubSeq(m, dash, dash) = "-" /\ SubSeq(m, dash + 1, dash + 1) = " "

RECURSIVE TotalLength(_)
\* messages.reduce((sum, m) => sum + m.length, 0)
TotalLength(texts) ==
    IF texts = << >> THEN 0 ELSE Len(Head(texts)) + TotalLength(Tail(texts))

\* count / total > share, for a share given in hundredths
MoreThan(count, total, hundredths) == count * 100 > hundredths * total

\* tiers that put a mean of exactly 50 or 200 into the lower tier
verbosityInclusive(total, count) ==
    IF total <= 50 * count THEN "concise, direct"
    ELSE IF total <= 200 * count THEN "moderate-length"
    ELSE "detailed, context-rich"

\* the tier of avgLen = total / count
verbosityOf(total, count) ==
    IF total < 50 * count THEN "concise, direct"
    ELSE IF total < 200 * count THEN "moderate-length"
    ELSE "detailed, context-rich"

analyzeCommunicationStyle(texts) ==
    LET count == Len(texts)
        codeMessages == SelectSeq(texts, LAMBDA m : Includes(m, Fence) \/ Includes(m, "def ")
                                                        \/ Includes(m, "function "))
        mdMessages == SelectSeq(texts, LooksLikeMarkdown)
        specificStarters == SelectSeq(texts, StartsSpecific)
    IN  IF count = 0
        THEN [called |-> TRUE, verbosity |-> "moderate", codeFirst |-> FALSE,
              usesMarkdown |-> FALSE, questionStyle |-> "mixed"]
        ELSE [called |-> TRUE,
              verbosity |-> verbosityOf(TotalLength(texts), count),
              codeFirst |-> MoreThan(Len(codeMessages), count, 15),
              usesMarkdown |-> MoreThan(Len(mdMessages), count, 10),
              questionStyle |-> IF MoreThan(Len(specificStarters), count, 30)
                                THEN "specific and action-oriented"
                                ELSE "exploratory and open-ended"]

InitStyle ==
    /\ StagesIdle /\ IdleBesideStyle
    /\ styleMessages \in StyleInputs
    /\ style = NoStyle

besideStyle == <<stageVars, unitsBesideStyle>>

CallAnalyzeStyle ==
    /\ ~style.called
    /\ style' = analyzeCommunicationStyle(styleMessages)
    /\ UNCHANGED <<besideStyle, styleMessages>>

NextStyle == CallAnalyzeStyle

SpecStyle == InitStyle /\ [][NextStyle]_vars

\* the number of texts that begin with a listed verb
StarterCount(texts) == Cardinality({i \in 1..Len(texts) : StartsSpecific(texts[i])})

\* the descriptor the claim gives for a list
StyleAsClaimed(texts, result) ==
    /\ result.verbosity =
          (IF TotalLength(texts) < 50 * Len(texts) THEN "concise, direct"
           ELSE IF TotalLength(texts) < 200 * Len(texts) THEN "moderate-length"
           ELSE "detailed, context-rich")
    /\ result.questionStyle =
          (IF 10 * StarterCount(texts) > 3 * Len(texts) THEN "specific and action-oriented"
           ELSE "exploratory and open-ended")

C25_WitnessEmpty == style.called /\ styleMessages = << >>

\* a text that begins with the letters of "add" counts as a starter
C25_WitnessPrefix ==
    /\ styleMessages = << "Additionally" >>
    /\ style.questionStyle = "specific and action-oriented"


-----------------------------------------------------------------------------
(***************************************************************************)
(* The page (app.js): handleFile with its two processing paths,            *)
(* resetToLanding (Start Over) and handleEnhance.  Each action is the code *)
(* a handler runs between two awaits.  A session variable is given by the  *)
(* archive it was computed from.  The drop zone is part of the landing     *)
(* section and Start Over and the enhance button of the preview section.   *)
(***************************************************************************)

\* how many archives the user uploads
MaxUploads == 2

besideApp == <<stageVars, unitsBesideApp>>

\* showError(msg), counted for the call of handleFile
ShowError(msg) == [hidden |-> FALSE, textContent |-> msg]

\* the catch of handleFile: transitionTo(STATE.LANDING); showError(...)
Catch(msg) ==
    /\ currentState' = "LANDING"
    /\ banner' = ShowError(msg)
    /\ upload' = [upload EXCEPT !.pc = "failed", !.errors = @ + 1]

\* handleFile up to `await extractFromZip(file)`, or its return for a file
\* that is no .zip
HandleFile ==
    /\ currentState = "LANDING"
    /\ uploads < MaxUploads
    /\ uploads' = uploads + 1
    /\ \E isZip \in BOOLEAN :
          IF ~isZip
          THEN /\ banner' = ShowError("Please upload a .zip file")
               /\ upload' = [NoUpload EXCEPT !.pc = "rejected", !.archive = uploads + 1,
                                             !.errors = 1, !.before = app]
               /\ UNCHANGED currentState
          ELSE /\ currentState' = "PROCESSING"
               /\ banner' = [banner EXCEPT !.hidden = TRUE]
               /\ upload' = [NoUpload EXCEPT !.pc = "extract", !.archive = uploads + 1,
                                             !.percent = 10, !.before = app]
    /\ UNCHANGED <<besideApp, app, enhance>>

\* extractFromZip settles.  It rejects for an archive without conversations;
\* else a large archive goes to the worker and any other to
\* processOnMainThread, which runs to its first await: metadata is assigned,
\* unless the metadata parse throws
ExtractSettles ==
    /\ upload.pc = "extract"
    /\ \/ /\ Catch("No conversations.json found in ZIP")
          /\ UNCHANGED app
       \/ /\ upload' = [upload EXCEPT !.pc = "worker", !.path = "worker"]
          /\ UNCHANGED <<currentState, banner, app>>
       \/ /\ Catch("Cannot read properties of null")
          /\ UNCHANGED app
       \/ /\ app' = [app EXCEPT !.metadata = Of(upload.archive)]
          /\ upload' = [upload EXCEPT !.pc = "fullParse", !.path = "main", !.percent = 40]
          /\ UNCHANGED <<currentState, banner>>
    /\ UNCHANGED <<besideApp, enhance, uploads>>

\* the full parse and the statistics, to the second await; the parse throws
\* on a message whose parts are no array
ParseAndCount ==
    /\ upload.pc = "fullParse"
    /\ \/ /\ Catch("parts.some is not a function")
          /\ UNCHANGED app
       \/ /\ app' = [app EXCEPT !.conversations = Of(upload.archive),
                                !.stats = Of(upload.archive)]
          /\ upload' = [upload EXCEPT !.pc = "cluster", !.percent = 65]
          /\ UNCHANGED <<currentState, banner>>
    /\ UNCHANGED <<besideApp, enhance, uploads>>

\* clusterConversations, to the third await; it throws on a message whose
\* contentParts is no array
ClusterStage ==
    /\ upload.pc = "cluster"
    /\ \/ /\ Catch("msg.contentParts.map is not a function")
          /\ UNCHANGED app
       \/ /\ app' = [app EXCEPT !.clusters = Of(upload.archive)]
          /\ upload' = [upload EXCEPT !.pc = "profile", !.percent = 80]
          /\ UNCHANGED <<currentState, banner>>
    /\ UNCHANGED <<besideApp, enhance, uploads>>

\* buildUserProfile and profileToMarkdown, to the fourth await
ProfileStage ==
    /\ upload.pc = "profile"
    /\ app' = [app EXCEPT !.profile = Of(upload.archive),
                          !.profileMarkdown = Of(upload.archive)]
    /\ upload' = [upload EXCEPT !.pc = "knowledge", !.percent = 90]
    /\ UNCHANGED <<besideApp, currentState, banner, enhance, uploads>>

\* summarizeClusters and the rest of processOnMainThread, then handleFile to
\* `await sleep(400)`; summarizeClusters throws on a createdAt that is an
\* Invalid Date
KnowledgeStage ==
    /\ upload.pc = "knowledge"
    /\ \/ /\ Catch("Invalid time value")
          /\ UNCHANGED app
       \/ /\ app' = [app EXCEPT !.knowledgeSummaries = Of(upload.archive)]
          /\ upload' = [upload EXCEPT !.pc = "sleep", !.percent = 100]
          /\ UNCHANGED <<currentState, banner>>
    /\ UNCHANGED <<besideApp, enhance, uploads>>

\* worker.onmessage for the result: the seven variables are assigned and the
\* promise resolves; handleFile goes on to `await sleep(400)`
WorkerResult ==
    /\ upload.pc = "worker"
    /\ app' = [app EXCEPT !.metadata = Of(upload.archive),
                          !.conversations = Of(upload.archive),
                          !.stats = Of(upload.archive),
                          !.clusters = Of(upload.archive),
                          !.profile = Of(upload.archive),
                          !.profileMarkdown = Of(upload.archive),
                          !.knowledgeSummaries = Of(upload.archive)]
    /\ upload' = [upload EXCEPT !.pc = "sleep", !.percent = 100]
    /\ UNCHANGED <<besideApp, currentState, banner, enhance, uploads>>

\* worker.onmessage for an error, or worker.onerror: the promise rejects
WorkerError ==
    /\ upload.pc = "worker"
    /\ Catch("Worker failed")
    /\ UNCHANGED <<besideApp, app, enhance, uploads>>

\* the rest of the try block: the selection, transitionTo(STATE.PREVIEW) and
\* the display functions; displayStats throws on a date range whose start is
\* an Invalid Date
FinishUpload ==
    /\ upload.pc = "sleep"
    /\ app' = [app EXCEPT !.selectedIds = app.metadata]
    /\ \/ Catch("Invalid time value")
       \/ /\ currentState' = "PREVIEW"
          /\ upload' = [upload EXCEPT !.pc = "shown"]
          /\ UNCHANGED banner
    /\ UNCHANGED <<besideApp, enhance, uploads>>

\* resetToLanding, the handler of Start Over
ResetToLanding ==
    /\ currentState = "PREVIEW"
    /\ app' = NoSession
    /\ currentState' = "LANDING"
    /\ enhance' = IF enhance.pc = "none" THEN enhance
                  ELSE [enhance EXCEPT !.resetSince = TRUE]
    /\ UNCHANGED <<besideApp, banner, upload, uploads>>

\* handleEnhance up to `await enhanceProfile(...)`: the request is made from
\* profileMarkdown and conversations as they are now
ClickEnhance ==
    /\ currentState = "PREVIEW"
    /\ enhance.pc = "none"
    /\ app.conversations # Empty
    /\ enhance' = [pc |-> "enhanceProfile", of |-> app.profileMarkdown.of, clustersOf |-> 0,
                   resetSince |-> FALSE]
    /\ UNCHANGED <<besideApp, currentState, app, banner, upload, uploads>>

\* enhanceProfile settles: profileMarkdown is replaced when the reply has
\* text, and enhanceKnowledge is called with clusters as it is now; a
\* rejection goes to the catch and ends the handler
EnhanceProfileSettles ==
    /\ enhance.pc = "enhanceProfile"
    /\ \E reply \in {"text", "blank", "rejected"} :
          /\ app' = IF reply = "text"
                    THEN [app EXCEPT !.profileMarkdown = EnhancedOf(enhance.of)]
                    ELSE app
          /\ enhance' = IF reply = "rejected" THEN NoEnhance
                        ELSE [enhance EXCEPT !.pc = "enhanceKnowledge",
                                             !.clustersOf = app.clusters.of]
    /\ UNCHANGED <<besideApp, currentState, banner, upload, uploads>>

\* enhanceKnowledge settles with one document per cluster it was given:
\* knowledgeSummaries is replaced unless there was no cluster
EnhanceKnowledgeSettles ==
    /\ enhance.pc = "enhanceKnowledge"
    /\ app' = IF enhance.clustersOf # 0
              THEN [app EXCEPT !.knowledgeSummaries = EnhancedOf(enhance.clustersOf)]
              ELSE app
    /\ enhance' = NoEnhance
    /\ UNCHANGED <<besideApp, currentState, banner, upload, uploads>>

InitApp == StagesIdle /\ IdleBesideApp /\ AppIdle

NextApp ==
    \/ HandleFile
    \/ ExtractSettles
    \/ ParseAndCount
    \/ ClusterStage
    \/ ProfileStage
    \/ KnowledgeStage
    \/ WorkerResult
    \/ WorkerError
    \/ FinishUpload
    \/ ResetToLanding
    \/ ClickEnhance
    \/ EnhanceProfileSettles
    \/ EnhanceKnowledgeSettles

SpecApp == InitApp /\ [][NextApp]_vars

\* C21: when extraction or a pipeline stage fails inside handleFile, on
\* either path, the page ends in LANDING with exactly one error message
\* shown and the session variables hold the values they had before the
\* upload.
C21_FatalErrorRestores ==
    upload.pc = "failed" =>
        /\ currentState = "LANDING"
        /\ ~banner.hidden /\ upload.errors = 1
        /\ app = upload.before

\* the part of C21 that holds: LANDING and one error message on either
\* path, and the session variables as before when it is the extraction or
\* the worker that fails
FatalErrorEndsInLanding ==
    upload.pc = "failed" =>
        /\ currentState = "LANDING"
        /\ ~banner.hidden /\ upload.errors = 1
        /\ (upload.path = "" \/ (upload.path = "worker" /\ upload.percent < 100)) =>
               \A field \in DOMAIN app :
                   app[field] = upload.before[field] \/ app[field].enhanced


\* a step in which a call of handleEnhance that Start Over found in progress
\* goes on
StaleEnhancementStep == enhance.resetSince /\ enhance' # enhance

\* C30: once resetToLanding has run, no completion of an enhancement that was
\* started before it writes profileMarkdown or knowledgeSummaries, so the
\* documents of a newly uploaded archive are never replaced by enhanced
\* documents of the previous archive.
C30_StartOverDiscards ==
    [][StaleEnhancementStep =>
           /\ app'.profileMarkdown = app.profileMarkdown
           /\ app'.knowledgeSummaries = app.knowledgeSummaries]_vars

\* what holds: a document of the preview that the enhancement has not
\* replaced is a document of the archive shown
HeuristicDocumentsOfTheArchive ==
    (currentState = "PREVIEW" /\ upload.pc = "shown") =>
        /\ ~app.profileMarkdown.enhanced => app.profileMarkdown.of = upload.archive
        /\ ~app.knowledgeSummaries.enhanced => app.knowledgeSummaries.of = upload.archive
====
